---- MODULE Spec2Model ----
(***************************************************************************)
(* DeepClaw (src/src/index.js): the voting / karma / moderator / pin logic *)
(* of the REST API, modelled as a state machine over the database tables.  *)
(* Every request handler is one atomic action (better-sqlite3 is           *)
(* synchronous and no handler awaits between its statements); the crash    *)
(* specification alone runs the vote handler in two steps, between which   *)
(* the process may die.  The rate limit hook and its in-memory Map are     *)
(* part of the rate limit and error specifications.                        *)
(*                                                                         *)
(* Identifiers: nanoid() only has to return a fresh opaque id.  An agent's *)
(* id, name and api key are modelled by one token (all three are unique    *)
(* per agent), a subclaw's id by its unique name, and a post's id by its   *)
(* position in the posts table.  Text columns that no handler branches on  *)
(* (bio, title, content, display_name, description, notifications.data)    *)
(* are left out.                                                           *)
(***************************************************************************)
EXTENDS Integers, Sequences, FiniteSets, TLC

VARIABLES
    agents,         \* table agents: id -> [karma, verified, verify_code, verify_handle]
    subclaws,       \* table subclaws: set of [id, name, creator_id]
    members,        \* table subclaw_members: set of [agent_id, subclaw_id]
    posts,          \* table posts: sequence of [id, agent_id, subclaw_id, pinned]
    votes,          \* table votes: set of [agent_id, post_id, value]
    moderators,     \* table moderators: set of [subclaw_id, agent_id, role, added_by]
    notifications,  \* table notifications: sequence of [agent_id, type]
    conversations,  \* table conversations: set of [id, agent1_id, agent2_id, status]
    messages,       \* table messages: set of [id, conversation_id, sender_id]
    comments,       \* table comments: sequence of [id, post_id, agent_id, parent_id]
    resp,           \* the reply to the last request
    lastVote,       \* history: <<agent, post>> -> value of the agent's most recent
                    \* accepted vote on the post, for the pairs where it was 1 or -1
    karmaApplied,   \* history: <<agent, post>> -> karma change its votes caused
    rateLimits,     \* the Map rateLimits: ip -> [count, resetAt]
    now,            \* Date.now(), in milliseconds since startup
    admitted,       \* history: ip -> (time -> number of requests the hook let
                    \* through at that time), for the times less than one
                    \* window before now
    pending,        \* the vote request whose handler has written the votes table
                    \* and not yet updated the karma: a sequence of 0 or 1 request
    crashes,        \* number of times the process died and was restarted
    inflight,       \* the requests the server has received and whose handler has
                    \* not started: set of [n, op, key, name, agent_name, id, value]
    running,        \* the handlers that have started and not returned: set of
                    \* [req, oldValue, overlapped]
    served,         \* history: request number -> [req, status, overlapped], where
                    \* overlapped holds the numbers of the requests that were
                    \* received and not yet answered when the handler started
    awaiting        \* the number of POST /agents/auth/moltbook handlers that wait
                    \* for the answer of moltbook.com

vars == <<agents, subclaws, members, posts, votes, moderators, notifications,
          conversations, messages, comments, resp, lastVote, karmaApplied,
          rateLimits, now, admitted, pending, crashes,
          inflight, running, served, awaiting>>

dm == <<conversations, messages>>

db == <<agents, subclaws, members, posts, votes, moderators, notifications, dm,
        comments>>

hist == <<lastVote, karmaApplied>>

limiter == <<rateLimits, now, admitted>>

proc == <<pending, crashes>>

loop == <<inflight, running, served, awaiting>>

\* what no request handler touches
env == <<limiter, proc, loop>>

----------------------------------------------------------------------------
\* Bounds of the model

\* posts the voting specification creates
MaxVotePosts == 2

\* posts in the moderation specification (three of them exist initially)
MaxPosts == 7

\* rows of the notifications table
MaxNotifs == 2

\* requests a client sends on after the hook has refused one of its window
MaxRejected == 1

\* posts in the error specification (three of them exist initially)
MaxErrPosts == 4

\* posts in the crash specification (three of them exist initially)
MaxCrashPosts == 4

\* crashes of the process
MaxCrashes == 1
MaxKarmaPosts == 5
MaxDefaultPosts == 5
MaxComments == 2
MaxDmNotifs == 4
MaxRequests == 3
MaxWaiting == 2
MaxAwaiting == 1

\* the clock stops here, in milliseconds
MaxTime == 180000

----------------------------------------------------------------------------
\* Program constants

\* index.js:1179  if (pinned.count >= 3)
MAX_PINNED == 3

\* index.js:1111  if (target.karma < 5)
MIN_MOD_KARMA == 5

\* index.js:37  const RATE_LIMIT_WINDOW = 60000
RATE_LIMIT_WINDOW == 60000

\* index.js:38  const RATE_LIMIT_MAX = 60
RATE_LIMIT_MAX == 60

NULL == "NULL"

\* request tokens
AgentIds == {"a1", "a2", "a3"}
BadKey == "badkey"

\* index.js:222-228
defaultSubclaws == {"general", "introductions", "philosophy", "technical", "liberation"}

----------------------------------------------------------------------------
\* Replies

Reply(op, status, error) ==
    [op |-> op, status |-> status, error |-> error, your_vote |-> NULL, score |-> NULL]

\* index.js:1017  { post_id, your_vote: value, score: score.score }
VoteReply(value, score) ==
    [op |-> "vote", status |-> 200, error |-> NULL, your_vote |-> value, score |-> score]

\* index.js:259-266: the reply of the preHandler when it rejects, else NULL
authenticate(key) ==
    IF key = NULL THEN "API key required"
    ELSE IF key \notin DOMAIN agents THEN "Invalid API key"
    ELSE NULL

----------------------------------------------------------------------------
\* Queries

PostIds == 1..Len(posts)

\* SELECT value FROM votes WHERE agent_id = ? AND post_id = ?
VoteRows(a, p) == {r \in votes : r.agent_id = a /\ r.post_id = p}

\* oldVote ? oldVote.value : 0
OldValue(a, p) ==
    IF VoteRows(a, p) = {} THEN 0 ELSE (CHOOSE r \in VoteRows(a, p) : TRUE).value

RECURSIVE SumValues(_)
SumValues(rows) ==
    IF rows = {} THEN 0
    ELSE LET r == CHOOSE x \in rows : TRUE IN r.value + SumValues(rows \ {r})

\* variant: the sum is not restricted to the post
Score_AllPosts(vs, p) == SumValues(vs)

\* SELECT COALESCE(SUM(value), 0) FROM votes WHERE post_id = ?
Score(vs, p) == SumValues({r \in vs : r.post_id = p})

\* SELECT * FROM subclaws WHERE name = ?
SubclawByName(name) == {s \in subclaws : s.name = name}

\* s.creator_id of the LEFT JOIN subclaws s ON p.subclaw_id = s.id
CreatorOf(subclaw_id) ==
    IF \E s \in subclaws : s.id = subclaw_id
    THEN (CHOOSE s \in subclaws : s.id = subclaw_id).creator_id
    ELSE NULL

\* SELECT 1 FROM moderators WHERE subclaw_id = ? AND agent_id = ?
isMod(subclaw_id, a) ==
    \E m \in moderators : m.subclaw_id = subclaw_id /\ m.agent_id = a

\* variant: the count is not restricted to the subclaw
PinnedCount_AllSubclaws(ps, subclaw_id) ==
    Cardinality({i \in 1..Len(ps) : ps[i].pinned = 1})

\* SELECT COUNT(*) FROM posts WHERE subclaw_id = ? AND pinned = 1
PinnedCount(ps, subclaw_id) ==
    Cardinality({i \in 1..Len(ps) : ps[i].subclaw_id = subclaw_id /\ ps[i].pinned = 1})

----------------------------------------------------------------------------
\* Requests received and handlers called (index.js:77-84, 241, 1514-1518)

\* the number of requests received so far
Arrived == Cardinality(inflight) + Cardinality(running) + Cardinality(DOMAIN served)

\* the numbers of the requests received and not yet answered, other than n
Unanswered(n) == ({r.n : r \in inflight} \cup {a.req.n : a \in running}) \ {n}

\* the numbers of the requests received and not forgotten
RequestNumbers ==
    {r.n : r \in inflight} \cup {a.req.n : a \in running} \cup DOMAIN served

\* the number that tells the next request from the others: the least one free
NextRequest ==
    CHOOSE n \in 1..(Cardinality(RequestNumbers) + 1) :
        /\ n \notin RequestNumbers
        /\ \A m \in 1..(n - 1) : m \in RequestNumbers

\* a request to one of the handlers, with the parameters the handler reads
Request(op, key, name, agent_name, id, value) ==
    [n |-> NextRequest, op |-> op, key |-> key, name |-> name,
     agent_name |-> agent_name, id |-> id, value |-> value]

\* the server receives a request of a client that is below the rate limit
Arrive(op, key, id, value) ==
    /\ inflight' = inflight \cup {Request(op, key, NULL, NULL, id, value)}
    /\ UNCHANGED <<db, hist, resp, limiter, proc, running, served, awaiting>>

\* variant: a handler is called while another one has not returned
EventLoopIdle_Preemptive == TRUE

\* the event loop calls a handler only when no handler is running
EventLoopIdle == running = {}

\* the handler of request r answers with the given reply
Answer(r, reply) ==
    /\ resp' = reply
    /\ served' = (r.n :> [req |-> r, status |-> reply.status,
                          overlapped |-> Unanswered(r.n)]) @@ served

----------------------------------------------------------------------------
\* Rate limiting (index.js:35-84)

\* const key = ip || 'unknown'
RateKey(ip) == IF ip = NULL THEN "unknown" ELSE ip

\* rateLimits.get(key) || { count: 0, resetAt: now + RATE_LIMIT_WINDOW }
RateRecord(ip) ==
    IF RateKey(ip) \in DOMAIN rateLimits
    THEN rateLimits[RateKey(ip)]
    ELSE [count |-> 0, resetAt |-> now + RATE_LIMIT_WINDOW]

\* index.js:45-50: the record after the request has been counted
RateRecordAfter(ip) ==
    IF now > RateRecord(ip).resetAt
    THEN [count |-> 1, resetAt |-> now + RATE_LIMIT_WINDOW]
    ELSE [count |-> RateRecord(ip).count + 1, resetAt |-> RateRecord(ip).resetAt]

\* index.js:40-54: the value checkRateLimit returns
checkRateLimit(ip) == RateRecordAfter(ip).count <= RATE_LIMIT_MAX

\* the requests of ip the hook let through during the last window, with this one
AdmittedAfter(ip) ==
    LET old == IF RateKey(ip) \in DOMAIN admitted THEN admitted[RateKey(ip)] ELSE <<>>
        n == IF now \in DOMAIN old THEN old[now] ELSE 0
    IN (RateKey(ip) :> ((now :> n + 1) @@ old)) @@ admitted

\* index.js:77-84: the onRequest hook counts the request when the server
\* receives it, and answers 429 or calls done().  After done() come an async
\* hook (index.js:241) and the reading of the body: the handler is called in
\* a later turn of the event loop, and until then the request waits.
onRequest(ip, op, key, name, agent_name, id, value) ==
    /\ rateLimits' = (RateKey(ip) :> RateRecordAfter(ip)) @@ rateLimits
    /\ UNCHANGED now
    /\ IF ~checkRateLimit(ip)
       THEN /\ resp' = Reply("onRequest", 429, "Too many requests. Please slow down.")
            /\ UNCHANGED <<admitted, inflight>>
       ELSE /\ admitted' = AdmittedAfter(ip)
            /\ inflight' = inflight \cup {Request(op, key, name, agent_name, id, value)}
            /\ UNCHANGED resp
    /\ UNCHANGED <<db, hist, proc, running, served, awaiting>>

\* index.js:57-64: the cleanup timer drops the records that expired more than
\* a window ago
Cleanup ==
    /\ rateLimits' = [k \in {k \in DOMAIN rateLimits :
                                ~(now > rateLimits[k].resetAt + RATE_LIMIT_WINDOW)}
                          |-> rateLimits[k]]
    /\ UNCHANGED <<db, hist, resp, now, admitted>>

\* time passes; the history forgets what is a window or more old
Tick(d) ==
    /\ now' = now + d
    /\ admitted' = [k \in DOMAIN admitted |->
                       [t \in {t \in DOMAIN admitted[k] : t > now' - RATE_LIMIT_WINDOW}
                            |-> admitted[k][t]]]
    /\ UNCHANGED <<db, hist, resp, rateLimits>>

----------------------------------------------------------------------------
\* GET /agents/:name

\* a property value of an object literal: undefined, or a defined value
undefined == <<>>
Defined(v) == <<v>>

\* an object literal { k1: v1, k2: v2, ... }: a later property of the same
\* name overrides an earlier one
RECURSIVE ObjectLiteral(_)
ObjectLiteral(props) ==
    IF props = <<>> THEN <<>>
    ELSE LET last == props[Len(props)]
         IN (last[1] :> last[2]) @@ ObjectLiteral(SubSeq(props, 1, Len(props) - 1))

\* JSON.stringify leaves out the properties whose value is undefined
JSONStringify(obj) ==
    [k \in {k \in DOMAIN obj : obj[k] # undefined} |-> obj[k][1]]

\* SELECT COUNT(*) FROM posts WHERE agent_id = ?
PostCount(a) == Cardinality({i \in PostIds : posts[i].agent_id = a})

\* index.js:793-802: { ...agent, karma: agent.karma, karma: undefined, post_count }
AgentProfile(name) ==
    ObjectLiteral(<< <<"name", Defined(name)>>,
                     <<"karma", Defined(agents[name].karma)>>,
                     <<"karma", Defined(agents[name].karma)>>,
                     <<"karma", undefined>>,
                     <<"post_count", Defined(PostCount(name))>> >>)

GetAgent(name) ==
    /\ IF name \notin DOMAIN agents
       THEN resp' = Reply("agent", 404, "Agent not found")
       ELSE resp' = [op |-> "agent", status |-> 200, error |-> NULL,
                     body |-> JSONStringify(AgentProfile(name))]
    /\ UNCHANGED <<db, hist>>

----------------------------------------------------------------------------
\* POST /agents

\* index.js:96, 212-214: a new row has the given karma (DEFAULT 0), verified
\* DEFAULT 0 and no verify_code and verify_handle
AgentRow(karma) ==
    [karma |-> karma, verified |-> 0, verify_code |-> NULL, verify_handle |-> NULL]

\* index.js:667-672: names of 2..32 characters of [a-zA-Z0-9_-]
ValidAgentName(name) == name \notin {"x", "bad name"}

Register(name) ==
    /\ IF ~ValidAgentName(name)
       THEN /\ resp' = Reply("register", 400,
                   IF name = "x" THEN "Name must be 2-32 characters"
                   ELSE "Name can only contain letters, numbers, _ and -")
            /\ UNCHANGED agents
       ELSE IF name \in DOMAIN agents
       THEN /\ resp' = Reply("register", 409, "Name taken")
            /\ UNCHANGED agents
       ELSE /\ agents' = (name :> AgentRow(0)) @@ agents
            /\ resp' = Reply("register", 200, NULL)
    /\ UNCHANGED <<subclaws, members, posts, votes, moderators, notifications, dm, comments, hist>>

----------------------------------------------------------------------------
\* POST /agents/auth/moltbook

\* index.js:14-27: sanitize escapes < > " ' ` and drops control characters
sanitize(text) ==
    IF text = "<m>" THEN "&lt;m&gt;" ELSE text

\* index.js:693-706: without the identity header the handler answers 400; with
\* it, it asks moltbook.com and waits for the answer
MoltbookBegin(identityToken) ==
    /\ IF identityToken = NULL
       THEN /\ resp' = Reply("moltbook", 400, "Missing X-Moltbook-Identity header")
            /\ UNCHANGED awaiting
       ELSE /\ awaiting' = awaiting + 1
            /\ UNCHANGED resp
    /\ UNCHANGED <<db, hist, limiter, proc, inflight, running, served>>

\* index.js:765: the message of the reply to a registration.  In the code it
\* ends with a space and the character U+1F43E (paw prints), which is two
\* UTF-16 code units; a string of this language holds ASCII only, and each
\* of the two code units is written as a question mark.
LinkedMessage == "Welcome! Your Moltbook account is now linked to DeepClaw. ??"

\* the reply to a Moltbook login or registration (index.js:739-748, 758-768)
MoltbookReply(name, message) ==
    [op |-> "moltbook", status |-> 200, error |-> NULL,
     body |-> [name |-> name, verified |-> FALSE, karma |-> 0, message |-> message]]

\* index.js:706-769: the handler goes on when moltbook.com has answered.  The
\* answer is a failure of fetch, a refusal, or a profile; between the two
\* awaits (fetch, verifyRes.json()) the handler reads and writes nothing.
MoltbookResume(answer, moltbookName) ==
    /\ awaiting > 0
    /\ awaiting' = awaiting - 1
    /\ IF answer = "throws"
       THEN /\ resp' = Reply("moltbook", 500, "Failed to verify Moltbook identity")
            /\ UNCHANGED agents
       ELSE IF answer = "refused"
       THEN /\ resp' = Reply("moltbook", 401, "Invalid or expired identity token")
            /\ UNCHANGED agents
       ELSE IF moltbookName = NULL
       THEN /\ resp' = Reply("moltbook", 400,
                             "Could not extract name from Moltbook profile")
            /\ UNCHANGED agents
       ELSE IF moltbookName \in DOMAIN agents
       THEN /\ resp' = [MoltbookReply(moltbookName, "Welcome back! Logged in with Moltbook.")
                           EXCEPT !.body.verified = (agents[moltbookName].verified = 1),
                                  !.body.karma = agents[moltbookName].karma]
            /\ UNCHANGED agents
       ELSE IF sanitize(moltbookName) \in DOMAIN agents
       THEN \* name TEXT UNIQUE (index.js:92): the INSERT throws
            /\ resp' = Reply("moltbook", 500, "UNIQUE constraint failed: agents.name")
            /\ UNCHANGED agents
       ELSE /\ agents' = (sanitize(moltbookName) :> AgentRow(0)) @@ agents
            /\ resp' = MoltbookReply(moltbookName, LinkedMessage)
    /\ UNCHANGED <<subclaws, members, posts, votes, moderators, notifications, dm,
                   comments, hist, limiter, proc, inflight, running, served>>

----------------------------------------------------------------------------
\* POST /posts

CreatePost(key, subclaw, content) ==
    /\ IF authenticate(key) # NULL
       THEN /\ resp' = Reply("post", 401, authenticate(key))
            /\ UNCHANGED posts
       ELSE IF content = ""
       THEN /\ resp' = Reply("post", 400, "Content must be 1-2000 characters")
            /\ UNCHANGED posts
       ELSE IF subclaw # NULL /\ SubclawByName(subclaw) = {}
       THEN /\ resp' = Reply("post", 404, "Subclaw c/" \o subclaw \o " not found")
            /\ UNCHANGED posts
       ELSE LET subclaw_id == IF subclaw = NULL THEN NULL
                              ELSE (CHOOSE s \in SubclawByName(subclaw) : TRUE).id
            IN /\ posts' = Append(posts, [id |-> Len(posts) + 1, agent_id |-> key,
                                          subclaw_id |-> subclaw_id, pinned |-> 0])
               /\ resp' = Reply("post", 200, NULL)
    /\ UNCHANGED <<agents, subclaws, members, votes, moderators, notifications, dm, comments, hist>>

----------------------------------------------------------------------------
\* POST /verify/request, POST /verify/confirm, GET /verify/status

\* variant: a verified agent gets a new code as well
VerifyRequest_WhenVerified(key, code) ==
    /\ IF authenticate(key) # NULL
       THEN /\ resp' = Reply("verifyrequest", 401, authenticate(key))
            /\ UNCHANGED agents
       ELSE /\ agents' = [agents EXCEPT ![key].verify_code = code]
            /\ resp' = Reply("verifyrequest", 200, NULL)
    /\ UNCHANGED <<subclaws, members, posts, votes, moderators, notifications, dm,
                   comments, hist>>

\* index.js:1021-1047; code is 'DC-' + nanoid(8).toUpperCase()
VerifyRequest(key, code) ==
    /\ IF authenticate(key) # NULL
       THEN /\ resp' = Reply("verifyrequest", 401, authenticate(key))
            /\ UNCHANGED agents
       ELSE IF agents[key].verified = 1
       THEN /\ resp' = Reply("verifyrequest", 400, "Already verified")
            /\ UNCHANGED agents
       ELSE /\ agents' = [agents EXCEPT ![key].verify_code = code]
            /\ resp' = Reply("verifyrequest", 200, NULL)
    /\ UNCHANGED <<subclaws, members, posts, votes, moderators, notifications, dm,
                   comments, hist>>

\* index.js:1065  twitter_handle.replace('@', '').trim(), on the handles of the model
CleanHandle(twitter_handle) ==
    IF twitter_handle \in {"@bob", " bob"} THEN "bob" ELSE twitter_handle

\* index.js:1066  /^[a-zA-Z0-9_]{1,15}$/.test(handle), on the handles of the model
ValidHandle(handle) == handle \in {"bob"}

\* index.js:1050-1080
VerifyConfirm(key, twitter_handle) ==
    /\ IF authenticate(key) # NULL
       THEN /\ resp' = Reply("verifyconfirm", 401, authenticate(key))
            /\ UNCHANGED agents
       ELSE IF twitter_handle = NULL
       THEN /\ resp' = Reply("verifyconfirm", 400, "twitter_handle required")
            /\ UNCHANGED agents
       ELSE IF agents[key].verified = 1
       THEN /\ resp' = Reply("verifyconfirm", 400, "Already verified")
            /\ UNCHANGED agents
       ELSE IF agents[key].verify_code = NULL
       THEN /\ resp' = Reply("verifyconfirm", 400,
                   "No verification pending. Call POST /verify/request first")
            /\ UNCHANGED agents
       ELSE IF ~ValidHandle(CleanHandle(twitter_handle))
       THEN /\ resp' = Reply("verifyconfirm", 400, "Invalid Twitter handle")
            /\ UNCHANGED agents
       ELSE /\ agents' = [agents EXCEPT ![key].verified = 1,
                                        ![key].verify_handle = CleanHandle(twitter_handle),
                                        ![key].verify_code = NULL]
            /\ resp' = Reply("verifyconfirm", 200, NULL)
    /\ UNCHANGED <<subclaws, members, posts, votes, moderators, notifications, dm,
                   comments, hist>>

\* index.js:1083-1092
VerifyStatus(key) ==
    /\ IF authenticate(key) # NULL
       THEN resp' = Reply("verifystatus", 401, authenticate(key))
       ELSE resp' = [op |-> "verifystatus", status |-> 200, error |-> NULL,
                     body |-> [verified |-> agents[key].verified # 0,
                               pending |-> agents[key].verify_code # NULL,
                               twitter_handle |->
                                   IF agents[key].verify_handle # NULL
                                   THEN <<"@", agents[key].verify_handle>>
                                   ELSE NULL]]
    /\ UNCHANGED <<db, hist>>

----------------------------------------------------------------------------
\* POST /posts/:id/comments

CommentIds == 1..Len(comments)

\* index.js:961  parent_id || null: the parent_id of a top-level comment (a
\* stored comment has a positive id)
NoComment == 0

\* index.js:965  { type: 'comment' } for the post's author
CommentNotification(author) == [agent_id |-> author, type |-> "comment"]

\* index.js:978  { type: 'reply' } for the parent comment's author
ReplyNotification(parentAuthor) == [agent_id |-> parentAuthor, type |-> "reply"]

\* index.js:964  post.agent_id !== request.agent.id
NotifiesAuthor(post, key) == post.agent_id # key

\* variant: the parent's author is notified also when it wrote the post
NotifiesParent_AlsoPostAuthor(parent_id, post, key) ==
    /\ parent_id # NoComment
    /\ parent_id \in CommentIds
    /\ comments[parent_id].agent_id # key

\* index.js:974-977: parent_id given, the parent comment exists, and its author
\* is neither the commenter nor the post's author
NotifiesParent(parent_id, post, key) ==
    /\ parent_id # NoComment
    /\ parent_id \in CommentIds
    /\ comments[parent_id].agent_id # key
    /\ comments[parent_id].agent_id # post.agent_id

Comment(key, p, content, parent_id) ==
    /\ IF authenticate(key) # NULL
       THEN /\ resp' = Reply("comment", 401, authenticate(key))
            /\ UNCHANGED <<comments, notifications>>
       ELSE IF content = ""
       THEN /\ resp' = Reply("comment", 400, "Content must be 1-1000 characters")
            /\ UNCHANGED <<comments, notifications>>
       ELSE IF p \notin PostIds
       THEN /\ resp' = Reply("comment", 404, "Post not found")
            /\ UNCHANGED <<comments, notifications>>
       ELSE LET post == posts[p]
                toAuthor == IF NotifiesAuthor(post, key)
                            THEN <<CommentNotification(post.agent_id)>> ELSE <<>>
                toParent == IF NotifiesParent(parent_id, post, key)
                            THEN <<ReplyNotification(comments[parent_id].agent_id)>>
                            ELSE <<>>
            IN /\ comments' = Append(comments, [id |-> Len(comments) + 1, post_id |-> p,
                                                agent_id |-> key, parent_id |-> parent_id])
               /\ notifications' = notifications \o toAuthor \o toParent
               /\ resp' = Reply("comment", 200, NULL)
    /\ UNCHANGED <<agents, subclaws, members, posts, votes, moderators, dm, hist>>

----------------------------------------------------------------------------
\* POST /posts/:id/vote

\* variant: a vote of 0 leaves the stored row in place
VotesAfter_KeepOnZero(a, p, value) ==
    IF value = 0
    THEN votes
    ELSE (votes \ VoteRows(a, p))
             \cup {[agent_id |-> a, post_id |-> p, value |-> value]}

\* variant: INSERT without REPLACE, the old row of the pair stays
VotesAfter_InsertOnly(a, p, value) ==
    IF value = 0
    THEN votes \ VoteRows(a, p)
    ELSE votes \cup {[agent_id |-> a, post_id |-> p, value |-> value]}

\* index.js:1002-1007
VotesAfter(a, p, value) ==
    IF value = 0
    THEN votes \ VoteRows(a, p)
    ELSE (votes \ VoteRows(a, p))
             \cup {[agent_id |-> a, post_id |-> p, value |-> value]}

\* variant: the old vote is not subtracted
karmaDelta_IgnoreOld(a, p, value) == value

\* index.js:1010
karmaDelta(a, p, value) == value - OldValue(a, p)

\* variant: the karma goes to the voter instead of the post's author
KarmaAfter_ToVoter(a, p, value) ==
    IF karmaDelta(a, p, value) # 0
    THEN [agents EXCEPT ![a].karma = @ + karmaDelta(a, p, value)]
    ELSE agents

\* variant: a vote on one's own post earns no karma
KarmaAfter_NoSelfVote(a, p, value) ==
    IF karmaDelta(a, p, value) # 0 /\ posts[p].agent_id # a
    THEN [agents EXCEPT ![posts[p].agent_id].karma = @ + karmaDelta(a, p, value)]
    ELSE agents

\* index.js:1011-1013
KarmaAfter(a, p, value) ==
    IF karmaDelta(a, p, value) # 0
    THEN [agents EXCEPT ![posts[p].agent_id].karma = @ + karmaDelta(a, p, value)]
    ELSE agents

\* variant: the post is looked up before the value is validated
Vote_PostBeforeValue(key, p, value) ==
    /\ IF authenticate(key) # NULL
       THEN /\ resp' = Reply("vote", 401, authenticate(key))
            /\ UNCHANGED <<agents, votes, hist>>
       ELSE IF p \notin PostIds
       THEN /\ resp' = Reply("vote", 404, "Post not found")
            /\ UNCHANGED <<agents, votes, hist>>
       ELSE IF value \notin {1, -1, 0}
       THEN /\ resp' = Reply("vote", 400, "Value must be 1, -1, or 0")
            /\ UNCHANGED <<agents, votes, hist>>
       ELSE /\ votes' = VotesAfter(key, p, value)
            /\ agents' = KarmaAfter(key, p, value)
            /\ resp' = VoteReply(value, Score(votes', p))
            /\ lastVote' = IF value = 0
                           THEN [x \in DOMAIN lastVote \ {<<key, p>>} |-> lastVote[x]]
                           ELSE (<<key, p>> :> value) @@ lastVote
            /\ karmaApplied' =
                 LET author == posts[p].agent_id
                     before == IF <<key, p>> \in DOMAIN karmaApplied
                               THEN karmaApplied[<<key, p>>] ELSE 0
                 IN (<<key, p>> :> before + agents'[author].karma - agents[author].karma)
                        @@ karmaApplied
    /\ UNCHANGED <<subclaws, members, posts, moderators, notifications, dm, comments>>

Vote(key, p, value) ==
    /\ IF authenticate(key) # NULL
       THEN /\ resp' = Reply("vote", 401, authenticate(key))
            /\ UNCHANGED <<agents, votes, hist>>
       ELSE IF value \notin {1, -1, 0}
       THEN /\ resp' = Reply("vote", 400, "Value must be 1, -1, or 0")
            /\ UNCHANGED <<agents, votes, hist>>
       ELSE IF p \notin PostIds
       THEN /\ resp' = Reply("vote", 404, "Post not found")
            /\ UNCHANGED <<agents, votes, hist>>
       ELSE /\ votes' = VotesAfter(key, p, value)
            /\ agents' = KarmaAfter(key, p, value)
            /\ resp' = VoteReply(value, Score(votes', p))
            /\ lastVote' = IF value = 0
                           THEN [x \in DOMAIN lastVote \ {<<key, p>>} |-> lastVote[x]]
                           ELSE (<<key, p>> :> value) @@ lastVote
            /\ karmaApplied' =
                 LET author == posts[p].agent_id
                     before == IF <<key, p>> \in DOMAIN karmaApplied
                               THEN karmaApplied[<<key, p>>] ELSE 0
                 IN (<<key, p>> :> before + agents'[author].karma - agents[author].karma)
                        @@ karmaApplied
    /\ UNCHANGED <<subclaws, members, posts, moderators, notifications, dm, comments>>

----------------------------------------------------------------------------
\* POST /posts/:id/vote, statement by statement, and the death of the process.
\* Every statement commits on its own (there is no transaction), so that the
\* tables keep what the handler had written when the process dies.

\* index.js:989-1007: the checks, the read of the old vote and the write of
\* the votes table
VoteWrite(key, p, value) ==
    /\ pending = <<>>
    /\ IF authenticate(key) # NULL
       THEN /\ resp' = Reply("vote", 401, authenticate(key))
            /\ UNCHANGED <<votes, lastVote, pending>>
       ELSE IF value \notin {1, -1, 0}
       THEN /\ resp' = Reply("vote", 400, "Value must be 1, -1, or 0")
            /\ UNCHANGED <<votes, lastVote, pending>>
       ELSE IF p \notin PostIds
       THEN /\ resp' = Reply("vote", 404, "Post not found")
            /\ UNCHANGED <<votes, lastVote, pending>>
       ELSE /\ votes' = VotesAfter(key, p, value)
            /\ pending' = << [agent_id |-> key, post_id |-> p, value |-> value,
                              author |-> posts[p].agent_id,
                              karmaDelta |-> karmaDelta(key, p, value)] >>
            /\ lastVote' = IF value = 0
                           THEN [x \in DOMAIN lastVote \ {<<key, p>>} |-> lastVote[x]]
                           ELSE (<<key, p>> :> value) @@ lastVote
            /\ UNCHANGED resp
    /\ UNCHANGED <<agents, subclaws, members, posts, moderators, notifications, dm, comments,
                   karmaApplied, limiter, crashes, loop>>

\* variant: the handler recomputes the author's karma from the votes table
PendingKarma_Recomputed ==
    [agents EXCEPT ![pending[1].author].karma =
        SumValues({r \in votes : posts[r.post_id].agent_id = pending[1].author})]

\* index.js:1010-1013
PendingKarma ==
    IF pending[1].karmaDelta # 0
    THEN [agents EXCEPT ![pending[1].author].karma = @ + pending[1].karmaDelta]
    ELSE agents

\* index.js:1009-1017: the karma update, the score and the reply
VoteKarma ==
    /\ pending # <<>>
    /\ agents' = PendingKarma
    /\ resp' = VoteReply(pending[1].value, Score(votes, pending[1].post_id))
    /\ karmaApplied' =
         LET x == <<pending[1].agent_id, pending[1].post_id>>
             author == pending[1].author
             before == IF x \in DOMAIN karmaApplied THEN karmaApplied[x] ELSE 0
         IN (x :> before + agents'[author].karma - agents[author].karma)
                @@ karmaApplied
    /\ pending' = <<>>
    /\ UNCHANGED <<subclaws, members, posts, votes, moderators, notifications, dm, comments,
                   lastVote, limiter, crashes, loop>>

\* the process dies between the two and is restarted: the tables persist, the
\* request in flight and the Map rateLimits are lost, the client gets no reply
Crash ==
    /\ pending # <<>>
    /\ pending' = <<>>
    /\ crashes' = crashes + 1
    /\ rateLimits' = <<>>
    /\ UNCHANGED <<db, hist, resp, now, admitted, loop>>

----------------------------------------------------------------------------
\* POST /subclaws

\* index.js:818-823: names of 2..24 characters of [a-z0-9_]
ValidSubclawName(name) == name \notin {"x", "Bad"}

CreateSubclaw(key, name) ==
    /\ IF authenticate(key) # NULL
       THEN /\ resp' = Reply("subclaw", 401, authenticate(key))
            /\ UNCHANGED <<subclaws, members>>
       ELSE IF ~ValidSubclawName(name)
       THEN /\ resp' = Reply("subclaw", 400,
                   IF name = "x" THEN "Name must be 2-24 characters"
                   ELSE "Name can only contain lowercase letters, numbers, and _")
            /\ UNCHANGED <<subclaws, members>>
       ELSE IF SubclawByName(name) # {}
       THEN /\ resp' = Reply("subclaw", 409, "Subclaw name taken")
            /\ UNCHANGED <<subclaws, members>>
       ELSE /\ subclaws' = subclaws \cup {[id |-> name, name |-> name, creator_id |-> key]}
            /\ members' = members \cup {[agent_id |-> key, subclaw_id |-> name]}
            /\ resp' = Reply("subclaw", 200, NULL)
    /\ UNCHANGED <<agents, posts, votes, moderators, notifications, dm, comments, hist>>

----------------------------------------------------------------------------
\* POST /subclaws/:name/join, DELETE /subclaws/:name/join

\* index.js:850-860: the INSERT of a row that exists throws (PRIMARY KEY) and
\* the handler catches it
Join(key, name) ==
    /\ IF authenticate(key) # NULL
       THEN /\ resp' = Reply("join", 401, authenticate(key))
            /\ UNCHANGED members
       ELSE IF SubclawByName(name) = {}
       THEN /\ resp' = Reply("join", 404, "Subclaw not found")
            /\ UNCHANGED members
       ELSE /\ members' = members \cup
                   {[agent_id |-> key,
                     subclaw_id |-> (CHOOSE s \in SubclawByName(name) : TRUE).id]}
            /\ resp' = Reply("join", 200, NULL)
    /\ UNCHANGED <<agents, subclaws, posts, votes, moderators, notifications, dm,
                   comments, hist>>

\* index.js:862-868
Leave(key, name) ==
    /\ IF authenticate(key) # NULL
       THEN /\ resp' = Reply("leave", 401, authenticate(key))
            /\ UNCHANGED members
       ELSE IF SubclawByName(name) = {}
       THEN /\ resp' = Reply("leave", 404, "Subclaw not found")
            /\ UNCHANGED members
       ELSE /\ members' = members \
                   {[agent_id |-> key,
                     subclaw_id |-> (CHOOSE s \in SubclawByName(name) : TRUE).id]}
            /\ resp' = Reply("leave", 200, NULL)
    /\ UNCHANGED <<agents, subclaws, posts, votes, moderators, notifications, dm,
                   comments, hist>>

----------------------------------------------------------------------------
\* POST /subclaws/:name/moderators

\* variant: moderators of the subclaw pass the owner check too
IsOwner_OrModerator(subclaw, a) == subclaw.creator_id = a \/ isMod(subclaw.id, a)

\* variant: a subclaw without creator belongs to everybody
IsOwner_OrUnowned(subclaw, a) == subclaw.creator_id \in {a, NULL}

\* index.js:1103  subclaw.creator_id !== request.agent.id
IsOwner(subclaw, a) == subclaw.creator_id = a

\* variant: the threshold itself is refused
KarmaTooLow_Inclusive(karma) == karma <= MIN_MOD_KARMA

\* index.js:1111  target.karma < 5
KarmaTooLow(karma) == karma < MIN_MOD_KARMA

\* variant: the INSERT never fails
ModeratorKeyTaken_Never(subclaw_id, agent_id) == FALSE

\* index.js:1115-1120: the INSERT throws on the primary key (subclaw_id, agent_id)
ModeratorKeyTaken(subclaw_id, agent_id) ==
    \E m \in moderators : m.subclaw_id = subclaw_id /\ m.agent_id = agent_id

ModeratorRow(subclaw_id, agent_id, by) ==
    [subclaw_id |-> subclaw_id, agent_id |-> agent_id, role |-> "moderator",
     added_by |-> by]

\* variant: the notification goes to the requester
ModAddedNotification_ToRequester(target, by) == [agent_id |-> by, type |-> "mod_added"]

\* index.js:1123-1124 (by is only part of the data column)
ModAddedNotification(target, by) == [agent_id |-> target, type |-> "mod_added"]

\* variant: the row is inserted before the karma check
AddModerator_InsertBeforeKarmaCheck(key, name, agent_name) ==
    /\ IF authenticate(key) # NULL
       THEN /\ resp' = Reply("addmod", 401, authenticate(key))
            /\ UNCHANGED <<moderators, notifications>>
       ELSE IF agent_name = NULL
       THEN /\ resp' = Reply("addmod", 400, "agent_name required")
            /\ UNCHANGED <<moderators, notifications>>
       ELSE IF SubclawByName(name) = {}
       THEN /\ resp' = Reply("addmod", 404, "Subclaw not found")
            /\ UNCHANGED <<moderators, notifications>>
       ELSE LET subclaw == CHOOSE s \in SubclawByName(name) : TRUE IN
            IF ~IsOwner(subclaw, key)
            THEN /\ resp' = Reply("addmod", 403, "Only the subclaw owner can add moderators")
                 /\ UNCHANGED <<moderators, notifications>>
            ELSE IF agent_name \notin DOMAIN agents
            THEN /\ resp' = Reply("addmod", 404, "Agent not found")
                 /\ UNCHANGED <<moderators, notifications>>
            ELSE IF ModeratorKeyTaken(subclaw.id, agent_name)
            THEN /\ resp' = Reply("addmod", 400, "Agent is already a moderator")
                 /\ UNCHANGED <<moderators, notifications>>
            ELSE IF KarmaTooLow(agents[agent_name].karma)
            THEN /\ resp' = Reply("addmod", 400,
                                  "Agent needs at least 5 Karma to become a moderator")
                 /\ moderators' = moderators \cup {ModeratorRow(subclaw.id, agent_name, key)}
                 /\ UNCHANGED notifications
            ELSE /\ moderators' = moderators \cup {ModeratorRow(subclaw.id, agent_name, key)}
                 /\ notifications' = Append(notifications, ModAddedNotification(agent_name, key))
                 /\ resp' = Reply("addmod", 200, NULL)
    /\ UNCHANGED <<agents, subclaws, members, posts, votes, dm, comments, hist>>

AddModerator(key, name, agent_name) ==
    /\ IF authenticate(key) # NULL
       THEN /\ resp' = Reply("addmod", 401, authenticate(key))
            /\ UNCHANGED <<moderators, notifications>>
       ELSE IF agent_name = NULL
       THEN /\ resp' = Reply("addmod", 400, "agent_name required")
            /\ UNCHANGED <<moderators, notifications>>
       ELSE IF SubclawByName(name) = {}
       THEN /\ resp' = Reply("addmod", 404, "Subclaw not found")
            /\ UNCHANGED <<moderators, notifications>>
       ELSE LET subclaw == CHOOSE s \in SubclawByName(name) : TRUE IN
            IF ~IsOwner(subclaw, key)
            THEN /\ resp' = Reply("addmod", 403, "Only the subclaw owner can add moderators")
                 /\ UNCHANGED <<moderators, notifications>>
            ELSE IF agent_name \notin DOMAIN agents
            THEN /\ resp' = Reply("addmod", 404, "Agent not found")
                 /\ UNCHANGED <<moderators, notifications>>
            ELSE IF KarmaTooLow(agents[agent_name].karma)
            THEN /\ resp' = Reply("addmod", 400,
                                  "Agent needs at least 5 Karma to become a moderator")
                 /\ UNCHANGED <<moderators, notifications>>
            ELSE IF ModeratorKeyTaken(subclaw.id, agent_name)
            THEN /\ resp' = Reply("addmod", 400, "Agent is already a moderator")
                 /\ UNCHANGED <<moderators, notifications>>
            ELSE /\ moderators' = moderators \cup {ModeratorRow(subclaw.id, agent_name, key)}
                 /\ notifications' = Append(notifications, ModAddedNotification(agent_name, key))
                 /\ resp' = Reply("addmod", 200, NULL)
    /\ UNCHANGED <<agents, subclaws, members, posts, votes, dm, comments, hist>>

\* the request passes every check of the handler and inserts a notification
AddModeratorInserts(key, name, agent_name) ==
    /\ authenticate(key) = NULL
    /\ agent_name \in DOMAIN agents
    /\ \E s \in SubclawByName(name) :
          /\ IsOwner(s, key)
          /\ ~KarmaTooLow(agents[agent_name].karma)
          /\ ~ModeratorKeyTaken(s.id, agent_name)

----------------------------------------------------------------------------
\* DELETE /subclaws/:name/moderators/:agent

\* variant: the DELETE is not restricted to the subclaw
ModeratorsWithout_AnySubclaw(subclaw_id, agent_id) ==
    {m \in moderators : m.agent_id # agent_id}

\* index.js:1141
ModeratorsWithout(subclaw_id, agent_id) ==
    {m \in moderators : ~(m.subclaw_id = subclaw_id /\ m.agent_id = agent_id)}

RemoveModerator(key, name, agent) ==
    /\ IF authenticate(key) # NULL
       THEN /\ resp' = Reply("removemod", 401, authenticate(key))
            /\ UNCHANGED moderators
       ELSE IF SubclawByName(name) = {}
       THEN /\ resp' = Reply("removemod", 404, "Subclaw not found")
            /\ UNCHANGED moderators
       ELSE LET subclaw == CHOOSE s \in SubclawByName(name) : TRUE IN
            IF ~IsOwner(subclaw, key)
            THEN /\ resp' = Reply("removemod", 403,
                                  "Only the subclaw owner can remove moderators")
                 /\ UNCHANGED moderators
            ELSE IF agent \notin DOMAIN agents
            THEN /\ resp' = Reply("removemod", 404, "Agent not found")
                 /\ UNCHANGED moderators
            ELSE /\ moderators' = ModeratorsWithout(subclaw.id, agent)
                 /\ resp' = Reply("removemod", 200, NULL)
    /\ UNCHANGED <<agents, subclaws, members, posts, votes, notifications, dm, comments, hist>>

----------------------------------------------------------------------------
\* POST /posts/:id/pin and DELETE /posts/:id/pin

\* variant: a moderator of any subclaw passes
CanModerate_AnySubclaw(post, a) ==
    CreatorOf(post.subclaw_id) = a \/ \E m \in moderators : m.agent_id = a

\* variant: a moderator passes only while its karma reaches the threshold
CanModerate_KarmaChecked(post, a) ==
    \/ CreatorOf(post.subclaw_id) = a
    \/ isMod(post.subclaw_id, a) /\ agents[a].karma >= MIN_MOD_KARMA

\* index.js:1172-1173 and 1193-1194: owner of the post's subclaw, or one of its moderators
CanModerate(post, a) == CreatorOf(post.subclaw_id) = a \/ isMod(post.subclaw_id, a)

\* variant: the limit is compared with > instead of >=
PinLimitReached_OffByOne(subclaw_id) == PinnedCount(posts, subclaw_id) > MAX_PINNED

\* index.js:1178-1179
PinLimitReached(subclaw_id) == PinnedCount(posts, subclaw_id) >= MAX_PINNED

Pin(key, id) ==
    /\ IF authenticate(key) # NULL
       THEN /\ resp' = Reply("pin", 401, authenticate(key))
            /\ UNCHANGED posts
       ELSE IF id \notin PostIds
       THEN /\ resp' = Reply("pin", 404, "Post not found")
            /\ UNCHANGED posts
       ELSE IF posts[id].subclaw_id = NULL
       THEN /\ resp' = Reply("pin", 400, "Can only pin posts in subclaws")
            /\ UNCHANGED posts
       ELSE IF ~CanModerate(posts[id], key)
       THEN /\ resp' = Reply("pin", 403, "Only subclaw owner or moderators can pin posts")
            /\ UNCHANGED posts
       ELSE IF PinLimitReached(posts[id].subclaw_id)
       THEN /\ resp' = Reply("pin", 400, "Maximum 3 pinned posts per subclaw")
            /\ UNCHANGED posts
       ELSE /\ posts' = [posts EXCEPT ![id].pinned = 1]
            /\ resp' = Reply("pin", 200, NULL)
    /\ UNCHANGED <<agents, subclaws, members, votes, moderators, notifications, dm, comments, hist>>

\* variant: unpin applies the pin handler's count check
Unpin_WithPinLimit(key, id) ==
    /\ IF authenticate(key) # NULL
       THEN /\ resp' = Reply("unpin", 401, authenticate(key))
            /\ UNCHANGED posts
       ELSE IF id \notin PostIds
       THEN /\ resp' = Reply("unpin", 404, "Post not found")
            /\ UNCHANGED posts
       ELSE IF ~CanModerate(posts[id], key)
       THEN /\ resp' = Reply("unpin", 403, "Only subclaw owner or moderators can unpin posts")
            /\ UNCHANGED posts
       ELSE IF PinLimitReached(posts[id].subclaw_id)
       THEN /\ resp' = Reply("unpin", 400, "Maximum 3 pinned posts per subclaw")
            /\ UNCHANGED posts
       ELSE /\ posts' = [posts EXCEPT ![id].pinned = 0]
            /\ resp' = Reply("unpin", 200, NULL)
    /\ UNCHANGED <<agents, subclaws, members, votes, moderators, notifications, dm, comments, hist>>

Unpin(key, id) ==
    /\ IF authenticate(key) # NULL
       THEN /\ resp' = Reply("unpin", 401, authenticate(key))
            /\ UNCHANGED posts
       ELSE IF id \notin PostIds
       THEN /\ resp' = Reply("unpin", 404, "Post not found")
            /\ UNCHANGED posts
       ELSE IF ~CanModerate(posts[id], key)
       THEN /\ resp' = Reply("unpin", 403, "Only subclaw owner or moderators can unpin posts")
            /\ UNCHANGED posts
       ELSE /\ posts' = [posts EXCEPT ![id].pinned = 0]
            /\ resp' = Reply("unpin", 200, NULL)
    /\ UNCHANGED <<agents, subclaws, members, votes, moderators, notifications, dm, comments, hist>>

----------------------------------------------------------------------------
\* POST /dm/request

\* nanoid(12): an id that none of the given rows uses
FreshId(used) == IF used = {} THEN 1 ELSE 1 + (CHOOSE m \in used : \A x \in used : x <= m)

ConversationIds == {c.id : c \in conversations} \cup {m.conversation_id : m \in messages}

\* variant: only the conversations that a asked b for
ConversationsOf_OneDirection(a, b) ==
    {c \in conversations : c.agent1_id = a /\ c.agent2_id = b}

\* index.js:1244-1247: the conversations of the two agents, in either direction
ConversationsOf(a, b) ==
    {c \in conversations : \/ (c.agent1_id = a /\ c.agent2_id = b)
                            \/ (c.agent1_id = b /\ c.agent2_id = a)}

DmRequest(key, to, message) ==
    /\ IF authenticate(key) # NULL
       THEN /\ resp' = Reply("dmrequest", 401, authenticate(key))
            /\ UNCHANGED <<conversations, messages, notifications>>
       ELSE IF to = NULL \/ message = NULL
       THEN /\ resp' = Reply("dmrequest", 400, "Missing to or message")
            /\ UNCHANGED <<conversations, messages, notifications>>
       ELSE IF to \notin DOMAIN agents
       THEN /\ resp' = Reply("dmrequest", 404, "Agent not found")
            /\ UNCHANGED <<conversations, messages, notifications>>
       ELSE IF to = key
       THEN /\ resp' = Reply("dmrequest", 400, "Cannot DM yourself")
            /\ UNCHANGED <<conversations, messages, notifications>>
       ELSE IF ConversationsOf(key, to) # {}
       THEN /\ resp' = Reply("dmrequest", 400,
                   IF (CHOOSE c \in ConversationsOf(key, to) : TRUE).status = "active"
                   THEN "Conversation already exists"
                   ELSE "Request already pending")
            /\ UNCHANGED <<conversations, messages, notifications>>
       ELSE LET convId == FreshId(ConversationIds) IN
            /\ conversations' = conversations \cup
                   {[id |-> convId, agent1_id |-> key, agent2_id |-> to,
                     status |-> "pending"]}
            /\ messages' = messages \cup
                   {[id |-> FreshId({m.id : m \in messages}),
                     conversation_id |-> convId, sender_id |-> key]}
            /\ notifications' = Append(notifications,
                                       [agent_id |-> to, type |-> "dm_request"])
            /\ resp' = Reply("dmrequest", 200, NULL)
    /\ UNCHANGED <<agents, subclaws, members, posts, votes, moderators, comments, hist>>

\* POST /dm/requests/:id/approve and /reject, POST /dm/conversations/:id/send

\* index.js:1287-1288 and 1301-1302
\* SELECT * FROM conversations WHERE id = ? AND agent2_id = ? AND status = 'pending'
PendingRequestsFor(id, key) ==
    {c \in conversations : c.id = id /\ c.agent2_id = key /\ c.status = "pending"}

\* index.js:1352-1354
\* SELECT * FROM conversations WHERE id = ? AND (agent1_id = ? OR agent2_id = ?)
\*   AND status = 'active'
ActiveConversationsOf(id, key) ==
    {c \in conversations : /\ c.id = id
                            /\ (c.agent1_id = key \/ c.agent2_id = key)
                            /\ c.status = "active"}

DmApprove(key, id) ==
    /\ IF authenticate(key) # NULL
       THEN /\ resp' = Reply("dmapprove", 401, authenticate(key))
            /\ UNCHANGED <<conversations, notifications>>
       ELSE IF PendingRequestsFor(id, key) = {}
       THEN /\ resp' = Reply("dmapprove", 404, "Request not found")
            /\ UNCHANGED <<conversations, notifications>>
       ELSE LET conv == CHOOSE c \in PendingRequestsFor(id, key) : TRUE IN
            /\ conversations' = (conversations \ {conv})
                                    \cup {[conv EXCEPT !.status = "active"]}
            /\ notifications' = Append(notifications,
                   [agent_id |-> conv.agent1_id, type |-> "dm_approved"])
            /\ resp' = Reply("dmapprove", 200, NULL)
    /\ UNCHANGED <<agents, subclaws, members, posts, votes, moderators, messages,
                   comments, hist>>

\* index.js:163-171: FOREIGN KEY (conversation_id) REFERENCES conversations(id),
\* enforced by the database (better-sqlite3 opens its connections with foreign
\* keys on, and index.js:9 changes no pragma): a DELETE of a conversation that
\* messages still refer to fails
ForeignKeyViolated(id) == \E m \in messages : m.conversation_id = id

\* index.js:1300-1308.  The conversation is deleted before its messages; when
\* the first DELETE throws, the handler ends there and the reply is Fastify's
\* 500
DmReject(key, id) ==
    /\ IF authenticate(key) # NULL
       THEN /\ resp' = Reply("dmreject", 401, authenticate(key))
            /\ UNCHANGED <<conversations, messages>>
       ELSE IF PendingRequestsFor(id, key) = {}
       THEN /\ resp' = Reply("dmreject", 404, "Request not found")
            /\ UNCHANGED <<conversations, messages>>
       ELSE IF ForeignKeyViolated(id)
       THEN /\ resp' = Reply("dmreject", 500, "FOREIGN KEY constraint failed")
            /\ UNCHANGED <<conversations, messages>>
       ELSE /\ conversations' = {c \in conversations : c.id # id}
            /\ messages' = {m \in messages : m.conversation_id # id}
            /\ resp' = Reply("dmreject", 200, NULL)
    /\ UNCHANGED <<agents, subclaws, members, posts, votes, moderators, notifications,
                   comments, hist>>

\* variant: the conversation's status is not looked at
DmSend_AnyStatus(key, id, message) ==
    /\ IF authenticate(key) # NULL
       THEN /\ resp' = Reply("dmsend", 401, authenticate(key))
            /\ UNCHANGED <<messages, notifications>>
       ELSE IF message = NULL
       THEN /\ resp' = Reply("dmsend", 400, "Message required")
            /\ UNCHANGED <<messages, notifications>>
       ELSE LET found == {c \in conversations :
                             c.id = id /\ (c.agent1_id = key \/ c.agent2_id = key)} IN
            IF found = {}
            THEN /\ resp' = Reply("dmsend", 404, "Conversation not found")
                 /\ UNCHANGED <<messages, notifications>>
            ELSE LET conv == CHOOSE c \in found : TRUE
                     otherId == IF conv.agent1_id = key THEN conv.agent2_id
                                ELSE conv.agent1_id
                 IN /\ messages' = messages \cup
                           {[id |-> FreshId({m.id : m \in messages}),
                             conversation_id |-> id, sender_id |-> key]}
                    /\ notifications' = Append(notifications,
                           [agent_id |-> otherId, type |-> "dm_message"])
                    /\ resp' = Reply("dmsend", 200, NULL)
    /\ UNCHANGED <<agents, subclaws, members, posts, votes, moderators, conversations,
                   comments, hist>>

DmSend(key, id, message) ==
    /\ IF authenticate(key) # NULL
       THEN /\ resp' = Reply("dmsend", 401, authenticate(key))
            /\ UNCHANGED <<messages, notifications>>
       ELSE IF message = NULL
       THEN /\ resp' = Reply("dmsend", 400, "Message required")
            /\ UNCHANGED <<messages, notifications>>
       ELSE IF ActiveConversationsOf(id, key) = {}
       THEN /\ resp' = Reply("dmsend", 404, "Conversation not found")
            /\ UNCHANGED <<messages, notifications>>
       ELSE LET conv == CHOOSE c \in ActiveConversationsOf(id, key) : TRUE
                otherId == IF conv.agent1_id = key THEN conv.agent2_id
                           ELSE conv.agent1_id
            IN /\ messages' = messages \cup
                      {[id |-> FreshId({m.id : m \in messages}),
                        conversation_id |-> id, sender_id |-> key]}
               /\ notifications' = Append(notifications,
                      [agent_id |-> otherId, type |-> "dm_message"])
               /\ resp' = Reply("dmsend", 200, NULL)
    /\ UNCHANGED <<agents, subclaws, members, posts, votes, moderators, conversations,
                   comments, hist>>

\* the request passes every check of the handler and inserts a notification
DmRequestInserts(key, to, message) ==
    /\ authenticate(key) = NULL
    /\ to \in DOMAIN agents \ {key}
    /\ message # NULL
    /\ ConversationsOf(key, to) = {}

----------------------------------------------------------------------------
\* Startup (index.js:89-236): empty tables and the five default subclaws,
\* which are inserted without a creator_id

\* the handler the route of request r names
Dispatch(r) ==
    CASE r.op = "agent" -> GetAgent(r.name)
      [] r.op = "vote" -> Vote(r.key, r.id, r.value)
      [] r.op = "addmod" -> AddModerator(r.key, r.name, r.agent_name)

\* the event loop calls the handler of a waiting request; the handler runs to
\* its return
Handle(r) ==
    /\ r \in inflight
    /\ EventLoopIdle
    /\ inflight' = inflight \ {r}
    /\ Dispatch(r)
    /\ UNCHANGED <<limiter, proc, running, served, awaiting>>

DefaultSubclawRows == {[id |-> n, name |-> n, creator_id |-> NULL] : n \in defaultSubclaws}

\* index.js:36: the Map is empty at startup
LimiterInit ==
    /\ rateLimits = <<>>
    /\ now = 0
    /\ admitted = <<>>

\* the process starts, no request is being handled
ProcInit ==
    /\ pending = <<>>
    /\ crashes = 0
    /\ inflight = {}
    /\ running = {}
    /\ served = <<>>
    /\ awaiting = 0

Init ==
    /\ agents = <<>>
    /\ subclaws = DefaultSubclawRows
    /\ members = {}
    /\ posts = <<>>
    /\ votes = {}
    /\ moderators = {}
    /\ notifications = <<>>
    /\ conversations = {}
    /\ messages = {}
    /\ comments = <<>>
    /\ resp = Reply("start", 200, NULL)
    /\ lastVote = <<>>
    /\ karmaApplied = <<>>
    /\ LimiterInit
    /\ ProcInit

\* Requests of the voting specification: any key votes any value on any post id
RegisterNames == {"a1", "a2", "x"}
VoteKeys == {"a1", "a2", BadKey, NULL}
PostKeys == {"a1", BadKey}
VoteValues == {1, -1, 0, 2}

\* The voting and the moderation specifications leave the rate limiter out:
\* their requests come from clients that stay below the limit.
Next ==
    \/ \E name \in RegisterNames : Register(name) /\ UNCHANGED env
    \/ \E key \in PostKeys, subclaw \in {NULL, "nosuch"}, content \in {"hi", ""} :
          /\ Len(posts) < MaxVotePosts
          /\ CreatePost(key, subclaw, content)
          /\ UNCHANGED env
    \/ \E key \in VoteKeys, p \in 1..(MaxVotePosts + 1), value \in VoteValues :
          Vote(key, p, value) /\ UNCHANGED env

Spec == Init /\ [][Next]_vars

----------------------------------------------------------------------------
\* The moderation specification starts from a populated database: a1, a2 and
\* a3 are registered, a1 created subclaw s1 and a3 created s2, a2 wrote posts
\* 1 and 2 outside any subclaw, a3 wrote post 3 in s2, and the votes
\* (a1,1) (a2,1) (a3,1) (a1,2), all of value 1, brought a2 to karma 4.
\* SpecSetup below replays exactly these requests from the startup state.

ModAgents == [a \in AgentIds |-> AgentRow(IF a = "a2" THEN 4 ELSE 0)]

ModSubclaws ==
    DefaultSubclawRows \cup {[id |-> "s1", name |-> "s1", creator_id |-> "a1"],
                             [id |-> "s2", name |-> "s2", creator_id |-> "a3"]}

ModPosts ==
    << [id |-> 1, agent_id |-> "a2", subclaw_id |-> NULL, pinned |-> 0],
       [id |-> 2, agent_id |-> "a2", subclaw_id |-> NULL, pinned |-> 0],
       [id |-> 3, agent_id |-> "a3", subclaw_id |-> "s2", pinned |-> 0] >>

ModVoted == {<<"a1", 1>>, <<"a2", 1>>, <<"a3", 1>>, <<"a1", 2>>}

ModDb ==
    /\ agents = ModAgents
    /\ subclaws = ModSubclaws
    /\ members = {[agent_id |-> "a1", subclaw_id |-> "s1"],
                  [agent_id |-> "a3", subclaw_id |-> "s2"]}
    /\ posts = ModPosts
    /\ votes = {[agent_id |-> x[1], post_id |-> x[2], value |-> 1] : x \in ModVoted}
    /\ moderators = {}
    /\ notifications = <<>>
    /\ conversations = {}
    /\ messages = {}
    /\ comments = <<>>
    /\ lastVote = [x \in ModVoted |-> 1]
    /\ karmaApplied = [x \in ModVoted |-> 1]

ModInit == ModDb /\ resp = Reply("start", 200, NULL) /\ LimiterInit /\ ProcInit

SetupNext ==
    \/ \E name \in AgentIds : Register(name) /\ UNCHANGED env
    \/ \E r \in {<<"a1", "s1">>, <<"a3", "s2">>} :
          CreateSubclaw(r[1], r[2]) /\ UNCHANGED env
    \/ \E r \in {<<"a2", NULL>>, <<"a3", "s2">>} :
          /\ Len(posts) < Len(ModPosts)
          /\ CreatePost(r[1], r[2], "hi")
          /\ UNCHANGED env
    \/ \E x \in ModVoted : Vote(x[1], x[2], 1) /\ UNCHANGED env

SpecSetup == Init /\ [][SetupNext]_vars

\* the populated database is a state the program reaches from startup
ModDbUnreached == ~ModDb

\* Requests of the moderation specification: a2 writes posts in s1, a3 casts and
\* clears its vote on post 2 (a2's karma moves between 4 and 5), every agent
\* asks to add or remove a2 or an unknown agent as moderator of s1 or s2, and
\* every agent asks to pin or unpin every post id but 1 (post 2 has no subclaw
\* either; the ids above Len(posts) are unknown)
ModTargets == {"a2", "ghost"}
ModSubclawNames == {"s1", "s2"}

ModNext ==
    \/ /\ Len(posts) < MaxPosts
       /\ CreatePost("a2", "s1", "hi")
       /\ UNCHANGED env
    \/ \E value \in {1, 0} : Vote("a3", 2, value) /\ UNCHANGED env
    \/ \E key \in AgentIds, name \in ModSubclawNames, agent_name \in ModTargets :
          /\ AddModeratorInserts(key, name, agent_name) => Len(notifications) < MaxNotifs
          /\ AddModerator(key, name, agent_name)
          /\ UNCHANGED env
    \/ \E key \in AgentIds, name \in ModSubclawNames, agent \in ModTargets :
          RemoveModerator(key, name, agent) /\ UNCHANGED env
    \/ \E key \in AgentIds, id \in 2..MaxPosts : Pin(key, id) /\ UNCHANGED env
    \/ \E key \in AgentIds, id \in 2..MaxPosts : Unpin(key, id) /\ UNCHANGED env

SpecMod == ModInit /\ [][ModNext]_vars

----------------------------------------------------------------------------
\* The rate limit specification: one client address sends profile requests and
\* a3's vote on post 2 through the hook, from the populated database, while
\* time advances in steps of just under a window and the cleanup timer runs.

RateIps == {"10.0.0.1"}
TickSteps == {59999}
ProfileNames == {"a2"}

RateNext ==
    \/ \E ip \in RateIps, name \in ProfileNames :
          /\ RateRecord(ip).count < RATE_LIMIT_MAX + MaxRejected
          /\ Cardinality(inflight) < MaxWaiting
          /\ onRequest(ip, "agent", NULL, name, NULL, 0, 0)
    \/ \E ip \in RateIps, value \in {1, 0} :
          /\ RateRecord(ip).count < RATE_LIMIT_MAX + MaxRejected
          /\ Cardinality(inflight) < MaxWaiting
          /\ onRequest(ip, "vote", "a3", NULL, NULL, 2, value)
    \/ \E r \in inflight : Handle(r)
    \/ \E d \in TickSteps :
          /\ now + d <= MaxTime
          /\ Tick(d)
          /\ UNCHANGED <<proc, loop>>
    \/ Cleanup /\ UNCHANGED <<proc, loop>>

SpecRate == ModInit /\ [][RateNext]_vars

----------------------------------------------------------------------------
\* The error specification: requests with missing, unknown and invalid
\* parameters to every handler, from the populated database.  Its clients stay
\* below the rate limit, except one address that has used up its window (60
\* profile requests at time 0, a state of the rate limit specification) and
\* sends on through the hook.

ErrInit ==
    /\ ModDb
    /\ resp = [op |-> "agent", status |-> 200, error |-> NULL,
               body |-> JSONStringify(AgentProfile("a2"))]
    /\ now = 0
    /\ rateLimits = [ip \in RateIps |->
                        [count |-> RATE_LIMIT_MAX, resetAt |-> RATE_LIMIT_WINDOW]]
    /\ admitted = [ip \in RateIps |-> (0 :> RATE_LIMIT_MAX)]
    /\ ProcInit

\* the initial state of the error specification is a state the program reaches
ErrInitUnreached == ~ErrInit

ErrKeys == {"a1", "a2", BadKey, NULL}
ErrVoteKeys == {"a3", BadKey, NULL}
ErrVotePosts == {2, 9}
ErrVoteValues == {1, 0, 2}
ErrPinPosts == {2, 4, 9}

ErrNext ==
    \/ \E name \in {"a1", "x", "bad name"} : Register(name) /\ UNCHANGED env
    \/ \E name \in {"a2", "ghost"} : GetAgent(name) /\ UNCHANGED env
    \/ \E key \in {"a1", BadKey}, name \in {"s1", "x", "Bad"} :
          CreateSubclaw(key, name) /\ UNCHANGED env
    \/ \E key \in {"a2", NULL}, subclaw \in {"s1", "nosuch"}, content \in {"hi", ""} :
          /\ Len(posts) < MaxErrPosts
          /\ CreatePost(key, subclaw, content)
          /\ UNCHANGED env
    \/ \E key \in ErrVoteKeys, p \in ErrVotePosts, value \in ErrVoteValues :
          Vote(key, p, value) /\ UNCHANGED env
    \/ \E key \in ErrKeys, name \in {"s1", "nosuch"}, agent_name \in {"a2", "ghost", NULL} :
          /\ AddModeratorInserts(key, name, agent_name) => Len(notifications) < MaxNotifs
          /\ AddModerator(key, name, agent_name)
          /\ UNCHANGED env
    \/ \E key \in ErrKeys, name \in {"s1", "nosuch"}, agent \in {"a2", "ghost"} :
          RemoveModerator(key, name, agent) /\ UNCHANGED env
    \/ \E key \in ErrKeys, id \in ErrPinPosts : Pin(key, id) /\ UNCHANGED env
    \/ \E key \in ErrKeys, id \in ErrPinPosts : Unpin(key, id) /\ UNCHANGED env
    \/ \E key \in ErrKeys, to \in {"a2", "ghost", NULL}, message \in {"hi", NULL} :
          /\ DmRequestInserts(key, to, message) => Len(notifications) < MaxNotifs
          /\ DmRequest(key, to, message)
          /\ UNCHANGED env
    \/ \E ip \in RateIps :
          /\ RateRecord(ip).count < RATE_LIMIT_MAX + MaxRejected
          /\ onRequest(ip, "addmod", "a1", "s1", "a2", 0, 0)
    \/ \E key \in {"a1", BadKey}, name \in {"s1", "nosuch"} :
          Join(key, name) /\ UNCHANGED env
    \/ \E key \in {"a2", BadKey}, name \in {"s1", "nosuch"} :
          Leave(key, name) /\ UNCHANGED env
    \/ MoltbookBegin(NULL)

SpecErr == ErrInit /\ [][ErrNext]_vars

----------------------------------------------------------------------------
\* The crash specification: a1 and a3 vote on post 2 and a2 writes a post,
\* from the populated database; a vote request runs in two steps, and
\* the process may die between them.  No other request runs between the two
\* steps (the handler does not await between its statements).

CrashVoters == {"a1", "a3"}
CrashVotePosts == {2}

CrashNext ==
    \/ \E key \in CrashVoters, p \in CrashVotePosts, value \in {1, -1, 0} :
          VoteWrite(key, p, value)
    \/ VoteKarma
    \/ /\ crashes < MaxCrashes
       /\ Crash
    \/ /\ pending = <<>>
       /\ Len(posts) < MaxCrashPosts
       /\ CreatePost("a2", NULL, "hi")
       /\ UNCHANGED env

SpecCrash == ModInit /\ [][CrashNext]_vars

-----------------------------------------------------------------------------
\* The self-vote specification: from the populated database, a2 and a3 vote
\* on post 2 (a2's) and on post 3 (a3's), so that each of them votes on its
\* own post and on the other's.

SelfVoters == {"a2", "a3"}
SelfVotePosts == {2, 3}

SelfNext ==
    \E key \in SelfVoters, p \in SelfVotePosts, value \in {1, -1, 0} :
        Vote(key, p, value) /\ UNCHANGED env

SpecSelf == ModInit /\ [][SelfNext]_vars

-----------------------------------------------------------------------------
\* The karma-loss specification: from the populated database, a3 casts and
\* clears its vote on post 2 (a2's karma moves between 4 and 5), the owner a1
\* adds and removes a2 as moderator of s1, a2 writes posts in s1, and a2 alone
\* asks to pin and unpin posts.

SpecKarmaPosts == 2..MaxKarmaPosts
KarmaMembers == {"a1", "a2"}
KarmaJoined == {"s1", "general"}

KarmaNext ==
    \/ \E value \in {1, 0} : Vote("a3", 2, value) /\ UNCHANGED env
    \/ /\ AddModeratorInserts("a1", "s1", "a2") => Len(notifications) < MaxNotifs
       /\ AddModerator("a1", "s1", "a2")
       /\ UNCHANGED env
    \/ RemoveModerator("a1", "s1", "a2") /\ UNCHANGED env
    \/ /\ Len(posts) < MaxKarmaPosts
       /\ CreatePost("a2", "s1", "hi")
       /\ UNCHANGED env
    \/ \E id \in SpecKarmaPosts : Pin("a2", id) /\ UNCHANGED env
    \/ \E id \in SpecKarmaPosts : Unpin("a2", id) /\ UNCHANGED env
    \/ \E key \in KarmaMembers, name \in KarmaJoined : Join(key, name) /\ UNCHANGED env
    \/ \E key \in KarmaMembers, name \in KarmaJoined : Leave(key, name) /\ UNCHANGED env

SpecKarma == ModInit /\ [][KarmaNext]_vars

-----------------------------------------------------------------------------
\* The default-subclaw specification: from the populated database, a2 writes
\* posts in the default subclaw general and in s1, a3 casts and clears its vote
\* on post 2 (a2's karma reaches 5), a1 asks to create a subclaw named
\* general, and a1 and a2 ask to add a2 as moderator (with and without
\* agent_name), to remove it, and to pin and unpin the new posts.

DefaultKeys == {"a1", "a2"}
DefaultNames == {"general", "s1"}
DefaultPinPosts == (Len(ModPosts) + 1)..MaxDefaultPosts

DefaultNext ==
    \/ \E value \in {1, 0} : Vote("a3", 2, value) /\ UNCHANGED env
    \/ CreateSubclaw("a1", "general") /\ UNCHANGED env
    \/ \E subclaw \in DefaultNames :
          /\ Len(posts) < MaxDefaultPosts
          /\ CreatePost("a2", subclaw, "hi")
          /\ UNCHANGED env
    \/ \E key \in DefaultKeys, name \in DefaultNames, agent_name \in {"a2", NULL} :
          /\ AddModeratorInserts(key, name, agent_name) => Len(notifications) < MaxNotifs
          /\ AddModerator(key, name, agent_name)
          /\ UNCHANGED env
    \/ \E key \in DefaultKeys, name \in DefaultNames :
          RemoveModerator(key, name, "a2") /\ UNCHANGED env
    \/ \E key \in DefaultKeys, id \in DefaultPinPosts : Pin(key, id) /\ UNCHANGED env
    \/ \E key \in DefaultKeys, id \in DefaultPinPosts : Unpin(key, id) /\ UNCHANGED env

SpecDefault == ModInit /\ [][DefaultNext]_vars

-----------------------------------------------------------------------------
\* The comment specification: from the populated database, the three agents
\* comment on post 2 (a2's), on post 3 (a3's) and on an unknown post, with and
\* without content, as top-level comments, as replies to the first comment
\* and as replies to a comment that does not exist.

CommentKeys == {"a1", "a2", "a3", BadKey}
CommentPosts == {2, 3, 9}
CommentParents == {NoComment, 1, 7}

CommentNext ==
    \E key \in CommentKeys, p \in CommentPosts, content \in {"hi", ""},
       parent_id \in CommentParents :
        /\ Len(comments) < MaxComments
        /\ Comment(key, p, content, parent_id)
        /\ UNCHANGED env

SpecComment == ModInit /\ [][CommentNext]_vars

-----------------------------------------------------------------------------
\* The direct-message specification: from the populated database, the three
\* agents ask a1, a2 or an unknown agent for a conversation, and approve,
\* reject and write to the conversations with the first two ids and an unknown
\* one.  Requests that would take the notifications table over its bound are
\* left out.

DmKeys == {"a1", "a2", "a3"}
DmTargets == {"a1", "a2", "ghost"}
DmIds == {1, 2, 9}

DmNext ==
    \/ \E key \in DmKeys, to \in DmTargets :
          /\ DmRequest(key, to, "hi")
          /\ Len(notifications') <= MaxDmNotifs
          /\ UNCHANGED env
    \/ \E key \in DmKeys, id \in DmIds :
          /\ DmApprove(key, id)
          /\ Len(notifications') <= MaxDmNotifs
          /\ UNCHANGED env
    \/ \E key \in DmKeys, id \in DmIds :
          DmReject(key, id) /\ UNCHANGED env
    \/ \E key \in DmKeys, id \in DmIds, message \in {"hi", NULL} :
          /\ DmSend(key, id, message)
          /\ Len(notifications') <= MaxDmNotifs
          /\ UNCHANGED env

SpecDm == ModInit /\ [][DmNext]_vars

-----------------------------------------------------------------------------
\* The verification specification: from the populated database, a1, a2 and a
\* client with a wrong key ask for a verification code (the server draws one
\* of two codes), confirm with a handle that is valid, valid after cleaning,
\* invalid or missing, and read their status.

VerifyKeys == {"a1", "a2", BadKey}
VerifyCodes == {"DC-1", "DC-2"}
VerifyHandles == {"bob", "@bob", "not a handle", NULL}
MoltbookTokens == {"token", NULL}
MoltbookAnswers == {"throws", "refused", "profile"}
MoltbookNames == {"a1", "x", "<m>", NULL}

VerifyNext ==
    \/ \E key \in VerifyKeys, code \in VerifyCodes :
          VerifyRequest(key, code) /\ UNCHANGED env
    \/ \E key \in VerifyKeys, twitter_handle \in VerifyHandles :
          VerifyConfirm(key, twitter_handle) /\ UNCHANGED env
    \/ \E key \in VerifyKeys : VerifyStatus(key) /\ UNCHANGED env
    \/ \E identityToken \in MoltbookTokens :
          /\ awaiting < MaxAwaiting
          /\ MoltbookBegin(identityToken)
    \/ \E answer \in MoltbookAnswers, moltbookName \in MoltbookNames :
          MoltbookResume(answer, moltbookName)

SpecVerify == ModInit /\ [][VerifyNext]_vars

----------------------------------------------------------------------------
\* Requests in flight.  The server receives requests at any time, also while a
\* handler runs or while other requests wait; a handler is a function without
\* await (index.js:989-1018, 1165-1185) that Node's event loop calls and runs
\* to its return before it calls the next one.  The pin and the vote handler
\* are written here in two steps each, cut where the claimed interleavings
\* would have to happen: after the pin count check, and after the read of the
\* old vote.

\* index.js:1165-1181: the pin handler up to the count check
PinBegin(r) ==
    /\ r \in inflight /\ r.op = "pin"
    /\ EventLoopIdle
    /\ inflight' = inflight \ {r}
    /\ IF authenticate(r.key) # NULL
       THEN Answer(r, Reply("pin", 401, authenticate(r.key))) /\ UNCHANGED running
       ELSE IF r.id \notin PostIds
       THEN Answer(r, Reply("pin", 404, "Post not found")) /\ UNCHANGED running
       ELSE IF posts[r.id].subclaw_id = NULL
       THEN Answer(r, Reply("pin", 400, "Can only pin posts in subclaws"))
            /\ UNCHANGED running
       ELSE IF ~CanModerate(posts[r.id], r.key)
       THEN Answer(r, Reply("pin", 403, "Only subclaw owner or moderators can pin posts"))
            /\ UNCHANGED running
       ELSE IF PinLimitReached(posts[r.id].subclaw_id)
       THEN Answer(r, Reply("pin", 400, "Maximum 3 pinned posts per subclaw"))
            /\ UNCHANGED running
       ELSE /\ running' = running \cup
                   {[req |-> r, oldValue |-> 0, overlapped |-> Unanswered(r.n)]}
            /\ UNCHANGED <<resp, served>>
    /\ UNCHANGED <<db, hist, limiter, proc, awaiting>>

\* index.js:1183-1184: the pin handler after the count check
PinEnd(a) ==
    /\ a \in running /\ a.req.op = "pin"
    /\ running' = running \ {a}
    /\ posts' = [posts EXCEPT ![a.req.id].pinned = 1]
    /\ resp' = Reply("pin", 200, NULL)
    /\ served' = (a.req.n :> [req |-> a.req, status |-> 200,
                              overlapped |-> a.overlapped]) @@ served
    /\ UNCHANGED <<agents, subclaws, members, votes, moderators, notifications, dm,
                   comments, hist, limiter, proc, inflight, awaiting>>

\* index.js:989-1000: the vote handler up to the read of the old vote
VoteBegin(r) ==
    /\ r \in inflight /\ r.op = "vote"
    /\ EventLoopIdle
    /\ inflight' = inflight \ {r}
    /\ IF authenticate(r.key) # NULL
       THEN Answer(r, Reply("vote", 401, authenticate(r.key))) /\ UNCHANGED running
       ELSE IF r.value \notin {1, -1, 0}
       THEN Answer(r, Reply("vote", 400, "Value must be 1, -1, or 0"))
            /\ UNCHANGED running
       ELSE IF r.id \notin PostIds
       THEN Answer(r, Reply("vote", 404, "Post not found")) /\ UNCHANGED running
       ELSE /\ running' = running \cup
                   {[req |-> r, oldValue |-> OldValue(r.key, r.id),
                     overlapped |-> Unanswered(r.n)]}
            /\ UNCHANGED <<resp, served>>
    /\ UNCHANGED <<db, hist, limiter, proc, awaiting>>

\* index.js:1002-1017: the vote handler after the read of the old vote
VoteEnd(a) ==
    /\ a \in running /\ a.req.op = "vote"
    /\ running' = running \ {a}
    /\ LET key == a.req.key
           p == a.req.id
           value == a.req.value
           delta == value - a.oldValue
       IN /\ votes' = VotesAfter(key, p, value)
          /\ agents' = IF delta # 0
                       THEN [agents EXCEPT ![posts[p].agent_id].karma = @ + delta]
                       ELSE agents
          /\ resp' = VoteReply(value, Score(votes', p))
          /\ lastVote' = IF value = 0
                         THEN [x \in DOMAIN lastVote \ {<<key, p>>} |-> lastVote[x]]
                         ELSE (<<key, p>> :> value) @@ lastVote
          /\ karmaApplied' =
               LET before == IF <<key, p>> \in DOMAIN karmaApplied
                             THEN karmaApplied[<<key, p>>] ELSE 0
               IN (<<key, p>> :> before + delta) @@ karmaApplied
    /\ served' = (a.req.n :> [req |-> a.req, status |-> 200,
                              overlapped |-> a.overlapped]) @@ served
    /\ UNCHANGED <<subclaws, members, posts, moderators, notifications, dm, comments,
                   limiter, proc, inflight, awaiting>>

-----------------------------------------------------------------------------
\* The event loop specification.  It starts where a2 has written four posts in
\* s1 and the owner a1 has pinned the first two of them (a state of the
\* moderation specification).  The server then receives pin requests of a1
\* (owner) and of a2 (not authorized) for the two unpinned posts, and votes of
\* 1 and -1 of a3 on post 2, in any number up to the bound and at any time; the
\* event loop calls the handlers of the waiting requests in any order.

LoopPosts ==
    ModPosts \o [i \in 1..4 |-> [id |-> Len(ModPosts) + i, agent_id |-> "a2",
                                  subclaw_id |-> "s1",
                                  pinned |-> IF i <= 2 THEN 1 ELSE 0]]

LoopInit ==
    /\ agents = ModAgents
    /\ subclaws = ModSubclaws
    /\ members = {[agent_id |-> "a1", subclaw_id |-> "s1"],
                  [agent_id |-> "a3", subclaw_id |-> "s2"]}
    /\ posts = LoopPosts
    /\ votes = {[agent_id |-> x[1], post_id |-> x[2], value |-> 1] : x \in ModVoted}
    /\ moderators = {}
    /\ notifications = <<>>
    /\ conversations = {}
    /\ messages = {}
    /\ comments = <<>>
    /\ lastVote = [x \in ModVoted |-> 1]
    /\ karmaApplied = [x \in ModVoted |-> 1]
    /\ resp = Reply("pin", 200, NULL)
    /\ LimiterInit
    /\ ProcInit

\* the initial state of the event loop specification is a state the program reaches
LoopInitUnreached == ~LoopInit

LoopPinKeys == {"a1", "a2"}
LoopPinPosts == {6, 7}
LoopVoteValues == {1, -1}

LoopNext ==
    \/ \E key \in LoopPinKeys, id \in LoopPinPosts :
          /\ Arrived < MaxRequests
          /\ Arrive("pin", key, id, 0)
    \/ \E value \in LoopVoteValues :
          /\ Arrived < MaxRequests
          /\ Arrive("vote", "a3", 2, value)
    \/ \E r \in inflight : PinBegin(r)
    \/ \E a \in running : PinEnd(a)
    \/ \E r \in inflight : VoteBegin(r)
    \/ \E a \in running : VoteEnd(a)

SpecLoop == LoopInit /\ [][LoopNext]_vars

----------------------------------------------------------------------------
\* Properties

\* the value of an agent's most recent accepted vote on a post (0: none, or cleared)
FinalVote(lv, a, p) == IF <<a, p>> \in DOMAIN lv THEN lv[<<a, p>>] ELSE 0

\* the karma change an agent's votes on a post have caused so far
Applied(ka, a, p) == IF <<a, p>> \in DOMAIN ka THEN ka[<<a, p>>] ELSE 0

\* a is the creator of subclaw c or is in its moderator registry
Authorized(a, c) ==
    \/ \E s \in subclaws : s.id = c /\ s.creator_id = a
    \/ \E m \in moderators : m.subclaw_id = c /\ m.agent_id = a

\* the number of pinned posts of subclaw c
PinnedIn(ps, c) ==
    Cardinality({i \in DOMAIN ps : ps[i].subclaw_id = c /\ ps[i].pinned = 1})

\* the registry rows of the pair (subclaw c, agent a)
RegistryRows(ms, c, a) == {m \in ms : m.subclaw_id = c /\ m.agent_id = a}

\* upvotes minus downvotes among a set of vote rows
Tally(rows) ==
    Cardinality({r \in rows : r.value = 1}) - Cardinality({r \in rows : r.value = -1})

\* the reply status and error of a vote request, by the order of the checks
VoteOutcome(key, p, value) ==
    IF key = NULL THEN <<401, "API key required">>
    ELSE IF key \notin DOMAIN agents THEN <<401, "Invalid API key">>
    ELSE IF value \notin {1, -1, 0} THEN <<400, "Value must be 1, -1, or 0">>
    ELSE IF p \notin PostIds THEN <<404, "Post not found">>
    ELSE <<200, NULL>>

\* C1: for every agent and post, the votes table holds exactly one row for the
\* pair, carrying the agent's most recent vote, when that vote was 1 or -1, and
\* no row when it was 0 or the agent never voted on the post.
C1_StoredVoteIsLastVote ==
    \A a \in DOMAIN agents, p \in PostIds :
        VoteRows(a, p) =
            IF FinalVote(lastVote, a, p) # 0
            THEN {[agent_id |-> a, post_id |-> p, value |-> FinalVote(lastVote, a, p)]}
            ELSE {}

\* C1 witness: an agent's vote of 0 removed its row on one post while its
\* row of value -1 on another post is still stored.
C1_Witness ==
    /\ resp.op = "vote" /\ resp.status = 200 /\ resp.your_vote = 0
    /\ \E a \in DOMAIN agents, p \in PostIds, q \in PostIds :
          /\ p # q
          /\ FinalVote(lastVote, a, p) = -1
          /\ [agent_id |-> a, post_id |-> p, value |-> -1] \in votes
          /\ VoteRows(a, q) = {}
          /\ <<a, q>> \in DOMAIN karmaApplied

\* C2: after every step, the karma change that an agent's votes on a post have
\* caused to the post's author equals the agent's final vote value on it, and
\* an accepted vote that repeats the stored value changes neither the votes
\* table nor any agent's karma.
C2_KarmaDeltaIsFinalVote ==
    [][ /\ \A a \in DOMAIN agents', p \in 1..Len(posts') :
              Applied(karmaApplied', a, p) = FinalVote(lastVote', a, p)
        /\ (resp'.op = "vote" /\ resp'.status = 200) =>
              \A a \in DOMAIN agents, p \in PostIds :
                  Vote(a, p, FinalVote(lastVote, a, p))
                      => (votes' = votes /\ agents' = agents)
      ]_vars

\* C2 witness: the votes of one agent on one post have moved the author's karma
\* by -1 in total and the agent's last vote there was -1.
C2_Witness ==
    /\ resp.op = "vote" /\ resp.status = 200 /\ resp.your_vote = -1
    /\ \E a \in DOMAIN agents, p \in PostIds :
          /\ Applied(karmaApplied, a, p) = -1
          /\ FinalVote(lastVote, a, p) = -1
          /\ agents[posts[p].agent_id].karma < 0

\* C3: no subclaw ever has more than 3 pinned posts.
C3_PinnedAtMostThree ==
    \A s \in subclaws : PinnedIn(posts, s.id) <= 3

\* C3 witness: a pin request was refused with the limit error in a subclaw
\* that has 3 pinned posts and a further unpinned one.
C3_Witness ==
    /\ resp.op = "pin" /\ resp.status = 400
    /\ resp.error = "Maximum 3 pinned posts per subclaw"
    /\ PinnedIn(posts, "s1") = 3
    /\ \E i \in PostIds : posts[i].subclaw_id = "s1" /\ posts[i].pinned = 0

\* C4: a pin request by an authenticated agent on a post of a subclaw is
\* answered 403 and changes no post unless the agent is the subclaw's creator
\* or currently one of its moderators, and a pinned flag is only ever set by
\* the pin request of such an agent.
C4_PinNeedsOwnerOrModerator ==
    [][ /\ resp'.op = "pin" =>
              \A key \in DOMAIN agents, id \in PostIds :
                  (/\ posts[id].subclaw_id # NULL
                   /\ ~Authorized(key, posts[id].subclaw_id)
                   /\ Pin(key, id))
                      => (resp'.status = 403 /\ posts' = posts)
        /\ posts' # posts =>
              \A id \in PostIds :
                  (posts[id].pinned = 0 /\ posts'[id].pinned = 1)
                      => /\ resp'.op = "pin" /\ resp'.status = 200
                         /\ \E key \in DOMAIN agents :
                               Authorized(key, posts[id].subclaw_id) /\ Pin(key, id)
      ]_vars

\* C4 witness: a pin request was answered 403 while a2 moderates s2 only,
\* after having been granted moderation twice, and s1 has posts.
C4_Witness ==
    /\ resp.op = "pin" /\ resp.status = 403
    /\ RegistryRows(moderators, "s2", "a2") # {}
    /\ RegistryRows(moderators, "s1", "a2") = {}
    /\ Len(notifications) = 2
    /\ \E i \in PostIds : posts[i].subclaw_id = "s1" /\ posts[i].pinned = 1

\* C5: an add-moderator request naming a target, sent by an authenticated agent
\* that is not the creator of the existing subclaw, is answered 403 whatever
\* the target is, and leaves the registry and the notifications unchanged.
C5_AddModeratorNeedsOwner ==
    [][ resp'.op = "addmod" =>
            \A key \in DOMAIN agents, s \in subclaws, t \in ModTargets :
                (s.name \in ModSubclawNames /\ s.creator_id # key
                                            /\ AddModerator(key, s.name, t))
                    => /\ resp'.status = 403
                       /\ moderators' = moderators
                       /\ notifications' = notifications
      ]_vars

\* C5 witness: an add-moderator request was answered 403 while s1 has a
\* moderator (who is not its owner).
C5_Witness ==
    /\ resp.op = "addmod" /\ resp.status = 403
    /\ RegistryRows(moderators, "s1", "a2") # {}

\* C6: an add-moderator request by the subclaw's owner for an existing agent
\* that is not yet its moderator adds the agent when its karma is at least 5
\* and otherwise fails with the karma error and leaves the registry unchanged.
C6_KarmaThresholdFive ==
    [][ resp'.op = "addmod" =>
            \A key \in DOMAIN agents, s \in subclaws, t \in DOMAIN agents :
                (/\ s.creator_id = key
                 /\ RegistryRows(moderators, s.id, t) = {}
                 /\ AddModerator(key, s.name, t))
                    => IF agents[t].karma >= 5
                       THEN /\ resp'.status = 200
                            /\ RegistryRows(moderators', s.id, t) # {}
                       ELSE /\ resp'.status = 400
                            /\ resp'.error =
                                 "Agent needs at least 5 Karma to become a moderator"
                            /\ moderators' = moderators
      ]_vars

\* C6 witness: the owner's request for a2 was refused with the karma error
\* while a2 has karma 4 and moderates nothing.
C6_Witness ==
    /\ resp.op = "addmod" /\ resp.status = 400
    /\ resp.error = "Agent needs at least 5 Karma to become a moderator"
    /\ agents["a2"].karma = 4
    /\ moderators = {}

\* C7 as claimed: whenever the pair is already in the registry, the owner's
\* add-moderator request fails with 'Agent is already a moderator'.
C7_AlwaysAlreadyModerator ==
    [][ resp'.op = "addmod" =>
            \A key \in DOMAIN agents, s \in subclaws, t \in DOMAIN agents :
                (/\ s.creator_id = key
                 /\ RegistryRows(moderators, s.id, t) # {}
                 /\ AddModerator(key, s.name, t))
                    => /\ resp'.status = 400
                       /\ resp'.error = "Agent is already a moderator"
                       /\ Cardinality(RegistryRows(moderators', s.id, t)) = 1
                       /\ notifications' = notifications
      ]_vars

\* C7 amended: whenever the pair is already in the registry, the owner's
\* add-moderator request fails with status 400, the registry keeps exactly one
\* row for the pair and no notification is emitted; the error is 'Agent is
\* already a moderator' when the target's karma is at least 5, and the karma
\* error when it has fallen below 5.
C7_AlreadyModeratorRefused ==
    [][ resp'.op = "addmod" =>
            \A key \in DOMAIN agents, s \in subclaws, t \in DOMAIN agents :
                (/\ s.creator_id = key
                 /\ RegistryRows(moderators, s.id, t) # {}
                 /\ AddModerator(key, s.name, t))
                    => /\ resp'.status = 400
                       /\ resp'.error =
                            IF agents[t].karma >= 5
                            THEN "Agent is already a moderator"
                            ELSE "Agent needs at least 5 Karma to become a moderator"
                       /\ moderators' = moderators
                       /\ Cardinality(RegistryRows(moderators', s.id, t)) = 1
                       /\ notifications' = notifications
      ]_vars

\* C7 witness: an add-moderator request was refused with 'Agent is already a
\* moderator'.
C7_Witness ==
    /\ resp.op = "addmod" /\ resp.status = 400
    /\ resp.error = "Agent is already a moderator"
    /\ moderators # {}

\* C8: a successful add-moderator request adds exactly the row of the named
\* subclaw and target to the registry and appends exactly one notification,
\* of type mod_added and addressed to the target; agents, karma, posts, votes,
\* subclaws and memberships stay as they were.
C8_AddModeratorEffect ==
    [][ (resp'.op = "addmod" /\ resp'.status = 200) =>
            /\ UNCHANGED <<agents, subclaws, members, posts, votes>>
            /\ \A key \in DOMAIN agents, s \in subclaws, t \in ModTargets :
                  (s.creator_id = key /\ AddModerator(key, s.name, t))
                      => /\ RegistryRows(moderators, s.id, t) = {}
                         /\ Cardinality(RegistryRows(moderators', s.id, t)) = 1
                         /\ moderators \subseteq moderators'
                         /\ moderators' \ moderators = RegistryRows(moderators', s.id, t)
                         /\ notifications' =
                              Append(notifications, [agent_id |-> t, type |-> "mod_added"])
      ]_vars

\* C8 witness: the owner of s2 has just added a2, who already moderated s1.
C8_Witness ==
    /\ resp.op = "addmod" /\ resp.status = 200
    /\ Len(notifications) = 2
    /\ notifications[2] = [agent_id |-> "a2", type |-> "mod_added"]
    /\ Cardinality(moderators) = 2

\* C9: a remove-moderator request on an existing subclaw by an authenticated
\* agent is answered 403 and leaves the registry unchanged unless the agent is
\* the subclaw's creator; the creator's request for an existing agent succeeds
\* whatever that agent's karma is and removes exactly the rows of the pair;
\* and rows leave the registry only through such a request.
C9_RemoveModeratorOwnerOnly ==
    [][ /\ resp'.op = "removemod" =>
              \A key \in DOMAIN agents, s \in subclaws, t \in ModTargets :
                  (s.name \in ModSubclawNames /\ RemoveModerator(key, s.name, t))
                      => IF s.creator_id # key
                         THEN resp'.status = 403 /\ moderators' = moderators
                         ELSE IF t \in DOMAIN agents
                         THEN /\ resp'.status = 200
                              /\ RegistryRows(moderators', s.id, t) = {}
                              /\ moderators' = moderators \ RegistryRows(moderators, s.id, t)
                         ELSE resp'.status = 404 /\ moderators' = moderators
        /\ ~(moderators \subseteq moderators') =>
              (resp'.op = "removemod" /\ resp'.status = 200)
      ]_vars

\* C9 witness: a remove request succeeded, the registry is empty although a2
\* had been made moderator, and a2's karma is below 5.
C9_Witness ==
    /\ resp.op = "removemod" /\ resp.status = 200
    /\ agents["a2"].karma < 5
    /\ Len(notifications) >= 1
    /\ moderators = {}

\* C10: in a subclaw with 3 pinned posts an authorized pin request for a
\* further, unpinned post fails with the limit error and leaves it unpinned;
\* an authorized unpin of one of the 3 leaves 2 pinned; and with 2 pinned an
\* authorized pin of an unpinned post succeeds and the subclaw has 3 again.
C10_PinLimitAndRelease ==
    [][ /\ resp'.op = "pin" =>
              \A key \in DOMAIN agents, id \in PostIds :
                  LET c == posts[id].subclaw_id IN
                  (c # NULL /\ posts[id].pinned = 0 /\ Authorized(key, c) /\ Pin(key, id))
                      => /\ PinnedIn(posts, c) = 3
                            => /\ resp'.status = 400
                               /\ resp'.error = "Maximum 3 pinned posts per subclaw"
                               /\ posts' = posts
                         /\ PinnedIn(posts, c) = 2
                            => /\ resp'.status = 200
                               /\ posts'[id].pinned = 1
                               /\ PinnedIn(posts', c) = 3
        /\ resp'.op = "unpin" =>
              \A key \in DOMAIN agents, id \in PostIds :
                  LET c == posts[id].subclaw_id IN
                  (c # NULL /\ posts[id].pinned = 1 /\ Authorized(key, c) /\ Unpin(key, id))
                      => (PinnedIn(posts, c) = 3
                            => /\ resp'.status = 200
                               /\ posts'[id].pinned = 0
                               /\ PinnedIn(posts', c) = 2)
      ]_vars

\* C10 witness: a pin request succeeded in s1, which now has 3 pinned posts
\* and a fourth, unpinned one, while s2 has a pinned post of its own.
C10_Witness ==
    /\ resp.op = "pin" /\ resp.status = 200
    /\ PinnedIn(posts, "s1") = 3
    /\ PinnedIn(posts, "s2") = 1
    /\ \E i \in PostIds : posts[i].subclaw_id = "s1" /\ posts[i].pinned = 0

\* the sum of the values of a function to the naturals
RECURSIVE SumCounts(_)
SumCounts(f) ==
    IF DOMAIN f = {} THEN 0
    ELSE LET t == CHOOSE x \in DOMAIN f : TRUE
         IN f[t] + SumCounts([x \in DOMAIN f \ {t} |-> f[x]])

\* the requests of address k admitted during the 60 seconds that end now
AdmittedInWindow(adm, k) == IF k \in DOMAIN adm THEN SumCounts(adm[k]) ELSE 0

\* the sum of the vote values stored on the posts of agent a, minus a's karma
KarmaGap(ag, ps, vs, a) ==
    Tally({r \in vs : ps[r.post_id].agent_id = a}) - ag[a].karma

\* the karma change that the vote request in flight still owes to agent a
Owed(pd, a) == IF pd # <<>> /\ pd[1].author = a THEN pd[1].karmaDelta ELSE 0

\* C11: the scenario, step by step.  Y holds no vote on P, a post of X: Y's
\* vote of 1 stores the row (Y,P)=1, raises X's karma to baseline+1 and returns
\* the score 1 (plus the votes of others on P); Y's following vote of -1 stores
\* -1, brings X's karma to baseline-1 and returns -1; Y's following vote of 0
\* leaves no row for (Y,P), brings X's karma back to baseline and returns 0.
\* The baseline is X's karma without Y's stored vote.
C11_VoteScenario ==
    [][ (resp'.op = "vote" /\ resp'.status = 200) =>
            \A Y \in DOMAIN agents, P \in PostIds :
                LET X == posts[P].agent_id
                    baseline == agents[X].karma - OldValue(Y, P)
                    others == Tally({r \in votes : r.post_id = P /\ r.agent_id # Y})
                    rows == {r \in votes' : r.agent_id = Y /\ r.post_id = P}
                IN /\ (OldValue(Y, P) = 0 /\ Vote(Y, P, 1))
                         => /\ rows = {[agent_id |-> Y, post_id |-> P, value |-> 1]}
                            /\ agents'[X].karma = baseline + 1
                            /\ resp'.score = others + 1
                   /\ (OldValue(Y, P) = 1 /\ Vote(Y, P, -1))
                         => /\ rows = {[agent_id |-> Y, post_id |-> P, value |-> -1]}
                            /\ agents'[X].karma = baseline - 1
                            /\ resp'.score = others - 1
                   /\ (OldValue(Y, P) = -1 /\ Vote(Y, P, 0))
                         => /\ rows = {}
                            /\ agents'[X].karma = baseline
                            /\ resp'.score = others
      ]_vars

\* C11 witness: the end of the scenario: Y's vote of 0 on a post of another
\* agent X was answered with score 0, no vote row is left, and X's karma is
\* back at 0.
C11_Witness ==
    /\ resp.op = "vote" /\ resp.status = 200
    /\ resp.your_vote = 0 /\ resp.score = 0
    /\ votes = {}
    /\ \E Y \in DOMAIN agents, P \in PostIds :
          /\ posts[P].agent_id # Y
          /\ <<Y, P>> \in DOMAIN karmaApplied
          /\ agents[posts[P].agent_id].karma = 0

\* C12: the score returned by a successful vote request is the number of
\* upvote rows minus the number of downvote rows stored for the post after
\* the request (0 without rows), and your_vote is the submitted value.
C12_ScoreIsSumAfterVote ==
    [][ (resp'.op = "vote" /\ resp'.status = 200) =>
            \A key \in DOMAIN agents, p \in PostIds, value \in {1, -1, 0} :
                (resp'.your_vote = value /\ Vote(key, p, value))
                    => /\ resp'.score = Tally({r \in votes' : r.post_id = p})
                       /\ resp'.your_vote = value
      ]_vars

\* C12 witness: a vote was answered with score 2 while another post carries
\* a downvote.
C12_Witness ==
    /\ resp.op = "vote" /\ resp.status = 200 /\ resp.score = 2
    /\ \E r \in votes : r.value = -1

\* C13: a request answered with status 400, 401, 403, 404, 409 or 429 leaves
\* every table as it was.
C13_ErrorsChangeNothing ==
    [][ resp'.status \in {400, 401, 403, 404, 409, 429} => UNCHANGED db ]_vars

\* C13 witness: the hook answered 429 to a request of the owner of s1 to add
\* a2, whose karma is 5, while a conversation is pending and s1 has no
\* moderator.
C13_Witness ==
    /\ resp.status = 429
    /\ agents["a2"].karma = 5
    /\ moderators = {}
    /\ conversations # {}

\* C14: a vote request is answered 401 without a known key, else 400 for a
\* value other than 1, -1, 0, else 404 for an unknown post, in this order of
\* precedence, and each of these replies leaves votes and karma unchanged.
C14_VoteErrorOrder ==
    [][ resp'.op = "vote" =>
            \A key \in ErrVoteKeys, p \in ErrVotePosts, value \in ErrVoteValues :
                \/ /\ resp'.status = VoteOutcome(key, p, value)[1]
                   /\ resp'.error = VoteOutcome(key, p, value)[2]
                   /\ resp'.status # 200 => (votes' = votes /\ agents' = agents)
                \/ ~Vote(key, p, value)
      ]_vars

\* C14 witness: a vote request was answered 400 after a3's vote on post 2
\* had been accepted.
C14_Witness ==
    /\ resp.op = "vote" /\ resp.status = 400
    /\ resp.error = "Value must be 1, -1, or 0"
    /\ [agent_id |-> "a3", post_id |-> 2, value |-> 1] \in votes

\* C15: the votes table never holds two rows for the same agent and post, and
\* every row has the value 1 or -1.
C15_OneRowPerPair ==
    /\ \A r \in votes : r.value \in {1, -1}
    /\ \A r1, r2 \in votes :
          (r1.agent_id = r2.agent_id /\ r1.post_id = r2.post_id) => r1 = r2

\* C15 witness: after a vote of 0 the table still holds three or more rows,
\* among them an upvote and a downvote.
C15_Witness ==
    /\ resp.op = "vote" /\ resp.status = 200 /\ resp.your_vote = 0
    /\ Cardinality(votes) >= 3
    /\ \E r1, r2 \in votes : r1.value = 1 /\ r2.value = -1

\* C16: a vote of an agent on a post is accepted whether or not the agent is
\* the post's author, and in both cases the author's karma changes by the
\* submitted value minus the stored value and no other karma changes.
C16_SelfVoteCounts ==
    [][ resp'.op = "vote" =>
            \A a \in DOMAIN agents, p \in PostIds, value \in {1, -1, 0} :
                (resp'.status = 200 => resp'.your_vote = value) /\ Vote(a, p, value)
                    => /\ resp'.status = 200
                       /\ \A x \in DOMAIN agents :
                             agents'[x].karma =
                                 IF x = posts[p].agent_id
                                 THEN agents[x].karma + value - OldValue(a, p)
                                 ELSE agents[x].karma
      ]_vars

\* C16 witness: a3 has just downvoted a post; its only vote rows are a
\* downvote on its own post 3 and the upvote on post 1 it started with, nobody
\* else has voted on post 3, and a3's karma is -1.
C16_Witness ==
    /\ resp.op = "vote" /\ resp.status = 200 /\ resp.your_vote = -1
    /\ posts[3].agent_id = "a3"
    /\ {r \in votes : r.post_id = 3} = {[agent_id |-> "a3", post_id |-> 3, value |-> -1]}
    /\ {r.post_id : r \in {x \in votes : x.agent_id = "a3"}} = {1, 3}
    /\ agents["a3"].karma = -1

\* C17: an unpin request for a post of a subclaw by the subclaw's creator or
\* one of its current moderators succeeds and leaves the post unpinned,
\* whatever the number of pinned posts and whether or not the post was
\* pinned, and changes no other post; the request of any other agent is
\* answered 403 and changes no post.
C17_UnpinAlwaysSucceeds ==
    [][ resp'.op = "unpin" =>
            \A key \in DOMAIN agents, id \in PostIds :
                (posts[id].subclaw_id # NULL /\ Unpin(key, id))
                    => IF Authorized(key, posts[id].subclaw_id)
                       THEN /\ resp'.status = 200
                            /\ posts'[id].pinned = 0
                            /\ \A j \in PostIds \ {id} : posts'[j] = posts[j]
                            /\ Len(posts') = Len(posts)
                       ELSE /\ resp'.status = 403
                            /\ posts' = posts
      ]_vars

\* C17 witness: an unpin request succeeded on a post that was not pinned, in
\* a subclaw that has 3 pinned posts: s1 has 3 pinned posts and an unpinned
\* one, and the only post of s2 is pinned.
C17_Witness ==
    /\ resp.op = "unpin" /\ resp.status = 200
    /\ PinnedIn(posts, "s1") = 3
    /\ PinnedIn(posts, "s2") = 1
    /\ \E i \in PostIds : posts[i].subclaw_id = "s1" /\ posts[i].pinned = 0

\* C18: the reply of GET /agents/:name for an existing agent carries the
\* agent's current karma.
C18_ProfileCarriesKarma ==
    (resp.op = "agent" /\ resp.status = 200)
        => /\ "karma" \in DOMAIN resp.body
           /\ resp.body.karma = agents[resp.body.name].karma

\* C19: no address has more than 60 of its requests admitted within any 60
\* seconds, and a request of an address that already had 60 admitted within
\* the last 60 seconds is answered 429 and reaches no handler.
C19_SixtyPerMinute ==
    [][ \A ip \in RateIps :
            /\ AdmittedInWindow(admitted', RateKey(ip)) <= 60
            /\ (rateLimits' # rateLimits /\ now' = now
                    /\ AdmittedInWindow(admitted, RateKey(ip)) >= 60)
                  => (resp'.status = 429 /\ UNCHANGED <<db, hist, inflight>>)
      ]_vars

\* C20: when the process dies after a vote request has written or deleted its
\* vote row and before the karma update it owes, the author's karma and the
\* sum of the votes on the author's posts, equal before, differ afterwards by
\* the lost update; and no request that runs to completion changes the
\* difference between the two, for any agent.
C20_CrashLeavesKarmaInconsistent ==
    [][ \A a \in DOMAIN agents :
            LET gap == KarmaGap(agents, posts, votes, a) - Owed(pending, a)
                gap2 == KarmaGap(agents', posts', votes', a) - Owed(pending', a)
            IN /\ crashes' = crashes => gap2 = gap
               /\ crashes' # crashes =>
                     /\ gap2 = gap + Owed(pending, a)
                     /\ (gap = 0 /\ Owed(pending, a) # 0) =>
                           agents'[a].karma #
                               Tally({r \in votes' : posts'[r.post_id].agent_id = a})
      ]_vars

\* C20 witness: after the process died in a3's upvote of post 2, a3's vote
\* of 0 ran to completion: the votes on a2's posts are the four initial ones
\* and a2's karma is 3.
C20_Witness ==
    /\ crashes = 1 /\ pending = <<>>
    /\ resp.op = "vote" /\ resp.status = 200 /\ resp.your_vote = 0
    /\ {<<r.agent_id, r.post_id>> : r \in {r \in votes : r.post_id \in {1, 2}}} = ModVoted
    /\ \A r \in votes : r.post_id \in {1, 2} => r.value = 1
    /\ agents["a2"].karma = 3

\* C25: with every request handled in one piece and no death of the process,
\* the karma of every agent is the sum of the values of the vote rows stored
\* on the posts the agent wrote (0 when there is no such row).
C25_KarmaIsSumOfVotes ==
    \A a \in DOMAIN agents :
        agents[a].karma = SumValues({r \in votes : posts[r.post_id].agent_id = a})

\* C25 witness: a1 wrote two posts that hold three vote rows, one of them a
\* downvote, after a vote was cleared; a1's karma is 1 and a2, who wrote no
\* post, is registered.
C25_Witness ==
    /\ resp.op = "vote" /\ resp.status = 200 /\ resp.your_vote = 0
    /\ "a2" \in DOMAIN agents
    /\ Len(posts) = 2 /\ \A i \in PostIds : posts[i].agent_id = "a1"
    /\ Cardinality(votes) = 3
    /\ \E r \in votes : r.value = -1
    /\ agents["a1"].karma = 1

\* C26: the karma threshold is applied when a moderator is added and at no
\* other time.  A vote leaves the moderator registry as it is, also when it
\* takes a moderator's karma below 5; and a pin or unpin request of an agent
\* who is in the registry of the post's subclaw with a karma below 5 is not
\* answered 403: it is handled as the request of any moderator.
C26_ThresholdOnlyAtGrant ==
    [][ /\ resp'.op = "vote" => moderators' = moderators
        /\ resp'.op \in {"pin", "unpin"} =>
              \A key \in DOMAIN agents, id \in PostIds :
                  LET c == posts[id].subclaw_id IN
                  ( /\ c # NULL
                    /\ RegistryRows(moderators, c, key) # {}
                    /\ agents[key].karma < MIN_MOD_KARMA
                    /\ (Pin(key, id) \/ Unpin(key, id)) )
                      => /\ resp'.status # 403
                         /\ resp'.op = "unpin" =>
                               resp'.status = 200 /\ posts'[id].pinned = 0
                         /\ (resp'.op = "pin" /\ PinnedIn(posts, c) < MAX_PINNED) =>
                               resp'.status = 200 /\ posts'[id].pinned = 1
      ]_vars

\* C26 witness: a2 is a moderator of s1 with karma 4 (a3's vote on post 2 was
\* cleared after the grant), and a2's pin request has just succeeded: s1 has a
\* pinned post.
C26_Witness ==
    /\ RegistryRows(moderators, "s1", "a2") # {}
    /\ agents["a2"].karma = 4
    /\ resp.op = "pin" /\ resp.status = 200
    /\ PinnedIn(posts, "s1") >= 1

\* C27 as stated: the five default subclaws never have a moderator or a pinned
\* post, and every add-moderator, remove-moderator, pin and unpin request of
\* an agent on one of them is answered 403, an add-moderator request that
\* carries no agent_name included.
C27_EveryRequestForbidden ==
    /\ [](/\ \A m \in moderators : m.subclaw_id \notin defaultSubclaws
          /\ \A i \in PostIds : posts[i].subclaw_id \in defaultSubclaws => posts[i].pinned = 0)
    /\ [][ \A key \in DOMAIN agents, name \in defaultSubclaws :
              /\ \A agent_name \in DOMAIN agents \cup {NULL} :
                    AddModerator(key, name, agent_name) => resp'.status = 403
              /\ \A agent \in DOMAIN agents :
                    RemoveModerator(key, name, agent) => resp'.status = 403
              /\ \A id \in PostIds :
                    (posts[id].subclaw_id = name /\ (Pin(key, id) \/ Unpin(key, id)))
                        => resp'.status = 403
          ]_vars

\* C27: the five default subclaws never have a moderator or a pinned post, and
\* every add-moderator request that names an agent, and every remove-moderator,
\* pin and unpin request, of an agent on one of them is answered 403 and
\* changes no table; an add-moderator request without agent_name is answered
\* 400 instead, before the owner is looked at.
C27_DefaultsHaveNoOwner ==
    /\ [](/\ \A m \in moderators : m.subclaw_id \notin defaultSubclaws
          /\ \A i \in PostIds : posts[i].subclaw_id \in defaultSubclaws => posts[i].pinned = 0)
    /\ [][ \A key \in DOMAIN agents, name \in defaultSubclaws :
              /\ \A agent_name \in DOMAIN agents :
                    AddModerator(key, name, agent_name)
                        => resp'.status = 403 /\ UNCHANGED db
              /\ AddModerator(key, name, NULL)
                        => resp'.status = 400 /\ resp'.error = "agent_name required"
                           /\ UNCHANGED db
              /\ \A agent \in DOMAIN agents :
                    RemoveModerator(key, name, agent)
                        => resp'.status = 403 /\ UNCHANGED db
              /\ \A id \in PostIds :
                    (posts[id].subclaw_id = name /\ (Pin(key, id) \/ Unpin(key, id)))
                        => resp'.status = 403 /\ UNCHANGED db
          ]_vars

\* C27 witness: the two posts written after startup are both in general and
\* not pinned, a2 has karma 5, and a pin request for one of them has just
\* been answered 403 (pin requests name no other post).
C27_Witness ==
    /\ Len(posts) = MaxDefaultPosts
    /\ \A i \in DefaultPinPosts : posts[i].subclaw_id = "general" /\ posts[i].pinned = 0
    /\ agents["a2"].karma = 5
    /\ resp.op = "pin" /\ resp.status = 403

\* C24: a comment request that succeeds appends to the notifications, in this
\* order, a 'comment' notification for the post's author unless the commenter
\* wrote the post, and, when parent_id names a stored comment, a 'reply'
\* notification for that comment's author unless that author is the commenter
\* or the post's author; nothing else.  So it appends at most 2 notifications,
\* to different agents, none of them to the commenter.
C24_CommentNotifications ==
    [][ (resp'.op = "comment" /\ resp'.status = 200) =>
            \A key \in DOMAIN agents, p \in PostIds, parent_id \in CommentParents :
                Comment(key, p, "hi", parent_id) =>
                    LET author == posts[p].agent_id
                        known == parent_id \in 1..Len(comments)
                        one == IF author = key THEN <<>>
                               ELSE <<[agent_id |-> author, type |-> "comment"]>>
                        two == IF known /\ comments[parent_id].agent_id \notin {key, author}
                               THEN <<[agent_id |-> comments[parent_id].agent_id,
                                       type |-> "reply"]>>
                               ELSE <<>>
                        new == SubSeq(notifications', Len(notifications) + 1,
                                      Len(notifications'))
                    IN /\ notifications' = notifications \o one \o two
                       /\ Len(new) <= 2
                       /\ \A i \in DOMAIN new : new[i].agent_id # key
                       /\ \A i, j \in DOMAIN new : new[i].agent_id = new[j].agent_id => i = j
      ]_vars

\* C24 witness: a3 commented on a2's post 2, then a1 replied to that comment:
\* the first comment notified a2, the second one a2 ('comment') and a3
\* ('reply').
C24_Witness ==
    /\ resp.op = "comment" /\ resp.status = 200
    /\ Len(comments) = 2
    /\ comments[1].agent_id = "a3" /\ comments[2].agent_id = "a1"
    /\ comments[2].parent_id = 1
    /\ notifications = << [agent_id |-> "a2", type |-> "comment"],
                          [agent_id |-> "a2", type |-> "comment"],
                          [agent_id |-> "a3", type |-> "reply"] >>

\* the messages of conversation id
MessagesOf(ms, id) == {m \in ms : m.conversation_id = id}

\* C23: the status of a conversation is pending or active; a conversation is
\* created pending; a stored conversation changes only from pending to
\* active, by an approve request; an active conversation is never deleted; a
\* pending one is deleted only by a reject request; and a reject request of
\* the recipient of a pending conversation deletes the conversation together
\* with its messages.
C23_ConversationLifecycle ==
    /\ [](\A c \in conversations : c.status \in {"pending", "active"})
    /\ [][ /\ \A c \in conversations' :
                (\A d \in conversations : d.id # c.id) => c.status = "pending"
           /\ \A c \in conversations :
                /\ c.status = "active" => c \in conversations'
                /\ c \notin conversations' =>
                      \/ /\ resp'.op = "dmapprove"
                         /\ [c EXCEPT !.status = "active"] \in conversations'
                      \/ /\ resp'.op = "dmreject"
                         /\ \A d \in conversations' : d.id # c.id
                /\ \A key \in DOMAIN agents :
                      (c.status = "pending" /\ c.agent2_id = key /\ DmReject(key, c.id))
                          => /\ \A d \in conversations' : d.id # c.id
                             /\ MessagesOf(messages', c.id) = {}
         ]_vars

\* C28: no conversation joins an agent with itself and no two conversations
\* join the same two agents, in whatever direction; a DM request between two
\* agents that a conversation already joins is answered 400 and stores
\* nothing; and a DM request is accepted only when no conversation joins the
\* two agents.
C28_OneConversationPerPair ==
    /\ [](/\ \A c \in conversations : c.agent1_id # c.agent2_id
          /\ \A c, d \in conversations :
                {c.agent1_id, c.agent2_id} = {d.agent1_id, d.agent2_id} => c = d)
    /\ [][ resp'.op = "dmrequest" =>
              \A key \in DOMAIN agents, to \in DOMAIN agents :
                  DmRequest(key, to, "hi") =>
                      LET joined == \E c \in conversations :
                                       {c.agent1_id, c.agent2_id} = {key, to}
                      IN /\ (joined \/ key = to) =>
                               /\ resp'.status = 400
                               /\ UNCHANGED <<conversations, messages, notifications>>
                         /\ resp'.status = 200 =>
                               /\ ~joined
                               /\ \E c \in conversations' \ conversations :
                                     /\ c.agent1_id = key /\ c.agent2_id = to
                                     /\ c.status = "pending"
                                     /\ conversations' = conversations \cup {c}
         ]_vars

\* C28 witness: a1 and a2 are joined by an active conversation, a3 and a1 by
\* a pending one, and a DM request has just been refused because a
\* conversation with the other agent is active.
C28_Witness ==
    /\ resp.op = "dmrequest" /\ resp.status = 400
    /\ resp.error = "Conversation already exists"
    /\ Cardinality(conversations) = 2
    /\ \E c \in conversations :
          {c.agent1_id, c.agent2_id} = {"a1", "a2"} /\ c.status = "active"
    /\ \E c \in conversations :
          c.agent1_id = "a3" /\ c.agent2_id = "a1" /\ c.status = "pending"

\* C29: an approve or reject request for a pending conversation by an agent
\* other than its recipient (agent2) is answered 404 and leaves conversations
\* and messages as they are; a send request is accepted only from one of the
\* two agents of the conversation while it is active and is answered 404
\* otherwise, storing nothing; and a pending conversation holds exactly one
\* message, written by its requester (agent1).
C29_OnlyRecipientDecides ==
    /\ [](\A c \in conversations :
            c.status = "pending" =>
                /\ Cardinality(MessagesOf(messages, c.id)) = 1
                /\ \A m \in MessagesOf(messages, c.id) : m.sender_id = c.agent1_id)
    /\ [][ \A key \in DOMAIN agents, c \in conversations :
              /\ ( /\ c.status = "pending" /\ key # c.agent2_id
                   /\ (DmApprove(key, c.id) \/ DmReject(key, c.id)) )
                    => /\ resp'.status = 404
                       /\ UNCHANGED <<conversations, messages, notifications>>
              /\ DmSend(key, c.id, "hi") =>
                    IF key \in {c.agent1_id, c.agent2_id} /\ c.status = "active"
                    THEN /\ resp'.status = 200
                         /\ \E m \in messages' \ messages :
                               /\ m.conversation_id = c.id /\ m.sender_id = key
                               /\ messages' = messages \cup {m}
                    ELSE /\ resp'.status = 404
                         /\ UNCHANGED <<conversations, messages, notifications>>
         ]_vars

\* C29 witness: a message has just been sent; the conversation of a1 and a2
\* is active and holds messages of both, and the conversation that a3 asked
\* a1 for is pending with one message.
C29_Witness ==
    /\ resp.op = "dmsend" /\ resp.status = 200
    /\ \E c \in conversations :
          /\ c.agent1_id = "a1" /\ c.agent2_id = "a2" /\ c.status = "active"
          /\ {m.sender_id : m \in MessagesOf(messages, c.id)} = {"a1", "a2"}
    /\ \E c \in conversations :
          /\ c.agent1_id = "a3" /\ c.agent2_id = "a1" /\ c.status = "pending"
          /\ Cardinality(MessagesOf(messages, c.id)) = 1

\* C30: a verified agent holds no verification code; a verified agent stays
\* verified; an agent becomes verified only by a confirm request that
\* succeeds while the agent holds a code; a code, once held, is given up only
\* by becoming verified; a confirm request of an agent that holds no code
\* changes nothing and is answered 400; and a request for a code and a
\* confirm request by a verified agent are answered 400 and change nothing.
C30_VerificationLifecycle ==
    /\ [](\A a \in DOMAIN agents :
            /\ agents[a].verified \in {0, 1}
            /\ agents[a].verified = 1 => agents[a].verify_code = NULL)
    /\ [][ \A a \in DOMAIN agents :
              /\ agents[a].verified = 1 => agents'[a].verified = 1
              /\ (agents[a].verified = 0 /\ agents'[a].verified = 1)
                    => /\ agents[a].verify_code # NULL
                       /\ resp'.op = "verifyconfirm" /\ resp'.status = 200
              /\ (agents[a].verify_code # NULL /\ agents'[a].verify_code = NULL)
                    => agents'[a].verified = 1
              /\ \A twitter_handle \in VerifyHandles :
                    VerifyConfirm(a, twitter_handle) =>
                        /\ agents[a].verify_code = NULL
                              => resp'.status = 400 /\ UNCHANGED db
                        /\ agents[a].verified = 1
                              => resp'.status = 400 /\ UNCHANGED db
                        /\ resp'.status = 200
                              => agents[a].verified = 0 /\ agents[a].verify_code # NULL
              /\ \A code \in VerifyCodes :
                    (agents[a].verified = 1 /\ VerifyRequest(a, code))
                        => resp'.status = 400 /\ UNCHANGED db
         ]_vars

\* C30 witness: a1 is verified under the handle bob and holds no code, a2
\* holds a code, and a request or confirm of a verified agent has just been
\* answered 'Already verified'.
C30_Witness ==
    /\ agents["a1"].verified = 1 /\ agents["a1"].verify_code = NULL
    /\ agents["a1"].verify_handle = "bob"
    /\ agents["a2"].verified = 0 /\ agents["a2"].verify_code = "DC-2"
    /\ resp.status = 400 /\ resp.error = "Already verified"


\* the handler of request r passes its checks and goes on to its writes
PassesChecks(r) ==
    /\ \/ PinBegin(r)
       \/ VoteBegin(r)
    /\ \E a \in running' : a.req = r

\* the served requests of one kind
ServedOf(op) == {n \in DOMAIN served : served[n].req.op = op}

\* request m and request n were both received before either was answered
Simultaneous(m, n) == n \in served[m].overlapped \/ m \in served[n].overlapped

\* C21 as stated: while the pin handler of an authorized request is between
\* its count check and its update, in a community that has 2 pinned posts, the
\* handler of a waiting authorized pin request for another unpinned post of
\* the community can pass the count check too.
C21_BothPassCountCheck ==
    \A a \in running, r \in inflight :
        ( /\ a.req.op = "pin" /\ r.op = "pin"
          /\ r.id # a.req.id
          /\ posts[r.id].subclaw_id = posts[a.req.id].subclaw_id
          /\ posts[r.id].pinned = 0
          /\ CanModerate(posts[r.id], r.key)
          /\ PinnedIn(posts, posts[r.id].subclaw_id) = 2 )
        => ENABLED PassesChecks(r)

\* C21: a pin handler runs from its count check to its update with no other
\* handler started in between.  At most one handler has started and not
\* returned; the count a running pin handler has checked is still the count of
\* the community; and of two simultaneous authorized pin requests for two
\* different unpinned posts of a community that has 2 pinned posts (the two
\* requests of the owner a1 that were answered, for different posts), one is
\* answered 200 and the other 400, leaving the community with 3 pinned posts.
C21_PinsRunOneAtATime ==
    /\ Cardinality(running) <= 1
    /\ \A a \in running :
          a.req.op = "pin" => PinnedIn(posts, posts[a.req.id].subclaw_id) < MAX_PINNED
    /\ \A m, n \in ServedOf("pin") :
          ( /\ m # n /\ Simultaneous(m, n)
            /\ served[m].req.id # served[n].req.id
            /\ \A k \in ServedOf("pin") : served[k].req.key = "a1" <=> k \in {m, n} )
          => /\ {served[m].status, served[n].status} = {200, 400}
             /\ PinnedIn(posts, "s1") = 3

\* C21 witness: the owner's pin requests for posts 6 and 7 were both received
\* before either was answered, in a community that had 2 pinned posts; one
\* was answered 200 and the other 400, and the community has 3 pinned posts.
C21_Witness ==
    /\ running = {}
    /\ \E m, n \in ServedOf("pin") :
          /\ served[m].req.key = "a1" /\ served[n].req.key = "a1"
          /\ served[m].req.id = 6 /\ served[n].req.id = 7
          /\ Simultaneous(m, n)
          /\ {served[m].status, served[n].status} = {200, 400}
    /\ PinnedIn(posts, "s1") = 3
    /\ resp.op = "pin" /\ resp.status = 400
    /\ resp.error = "Maximum 3 pinned posts per subclaw"

\* C22 as stated: while the vote handler of an agent's request is between its
\* read of the old vote and its writes, the handler of a waiting vote request
\* of the same agent on the same post can read the old vote too.
C22_BothReadOldVote ==
    \A a \in running, r \in inflight :
        ( /\ a.req.op = "vote" /\ r.op = "vote"
          /\ r.key = a.req.key /\ r.id = a.req.id )
        => ENABLED PassesChecks(r)

\* C22: a vote handler runs from its read of the old vote to its karma update
\* with no other handler started in between.  A running vote handler is the
\* only running handler and the old value it has read is the value stored;
\* and in every state, also after two simultaneous votes of one agent on one
\* post, the karma of every agent is the sum of the vote values stored on the
\* agent's posts.
C22_VotesRunOneAtATime ==
    /\ \A a \in running :
          a.req.op = "vote" => /\ running = {a}
                               /\ a.oldValue = OldValue(a.req.key, a.req.id)
    /\ \A m, n \in ServedOf("vote") :
          (m # n /\ Simultaneous(m, n))
          => \A a \in DOMAIN agents :
                agents[a].karma =
                    SumValues({r \in votes : posts[r.post_id].agent_id = a})

\* C22 witness: a3's votes of 1 and of -1 on post 2 were both received before
\* either was answered; both were answered 200, the vote of -1 last, and a2's
\* karma is the sum of the votes stored on a2's posts: 3 on post 1, and 1 and
\* -1 on post 2.
C22_Witness ==
    /\ running = {}
    /\ \E m, n \in ServedOf("vote") :
          /\ served[m].req.value = 1 /\ served[n].req.value = -1
          /\ Simultaneous(m, n)
          /\ served[m].status = 200 /\ served[n].status = 200
    /\ OldValue("a3", 2) = -1
    /\ agents["a2"].karma = 3

====
